---- MODULE Spec2Model ----
(***************************************************************************)
(* Model of tenlib.http's concurrent request dispatch: RequestPool (a      *)
(* ThreadPoolExecutor plus an append-only list of futures), its two        *)
(* retrieval operations in_order() and as_completed(), the three on_error  *)
(* policies, and the MultiRequest expansion that drives a pool.            *)
(*                                                                         *)
(* Futures ("Handles") are numbered 1..nfut in the order in which          *)
(* executor.submit created them.  Each statement of the Python code that   *)
(* reads or writes state shared between threads is one step; the steps of  *)
(* concurrent.futures that the code calls are modelled from the standard   *)
(* library at the line of the call.                                        *)
(***************************************************************************)
EXTENDS Integers, Sequences, FiniteSets, TLC

\* ------------------------------------------------------------------ bounds
MaxHandles == 3        \* futures created in one run, one caller thread
MaxShared == 2         \* futures created in one run, two caller threads
MaxWorkers == 2        \* largest worker count a pool is created with
MaxItems == 2          \* items of one Multi
MaxMultis == 2         \* Multis in the arguments of one multi() call

Threads == {"main", "other"}
Policies == {"raise", "skip", "return"}
TagBase == 40          \* the tests tag request i with i, from 40 on
NoTag == 0             \* the future has no .tag attribute yet

VARIABLES
    on_error,     \* RequestPool._on_error
    workers,      \* max_workers of RequestPool._executor
    description,  \* RequestPool._description is not None
    progress,     \* RequestPool._progress: [on, total, completed]
    shutdown,     \* ThreadPoolExecutor._shutdown
    workq,        \* ThreadPoolExecutor._work_queue (work items, by future)
    nfut,         \* number of futures created by executor.submit
    fstate,       \* Future._state
    fout,         \* what the future holds: "none", "result", "exception"
    ftag,         \* Future.tag
    fcb,          \* future has the progress done-callback attached
    queue,        \* RequestPool._queue
    wk,           \* worker threads: [pc, item]
    th,           \* caller threads: [pc, fut, tag]
    gen,          \* the retrieval the main thread is running
    out,          \* what the retrieval has delivered to the consumer so far
    raised,       \* exception the retrieval raised to the consumer
    hist,         \* history: observations used to state the properties
    kwargs,       \* MultiRequest._run_requests: the caller's arguments
    paths_items,  \* _run_requests: (path, items) of each Multi found
    arguments,    \* _run_requests: the working copy of kwargs
    frames,       \* the calls of _iter_set_path in progress, outermost first
    mpc,          \* where _run_requests is
    sent,         \* the keyword arguments of each pool.get / pool.post call
    result,       \* what _run_requests returned or raised
    verdict,      \* MultiRequestFirst: what self._filter does with the
                  \* outcome of each future: "yes", "no", "raise"
    comp,         \* MultiRequestFirst: the futures whose outcome the
                  \* filter accepts, in the order in which they completed
    base_url,     \* ScopedSession.base_url
    request,      \* the last call on the ScopedSession: what was given,
                  \* request.url, how the call ended
    proxies,      \* Session._proxies
    verify,       \* Session.verify
    burp_saved_state, \* Session._burp_saved_state
    call,         \* the calls made on the Session's settings: their number,
                  \* the last one and how it ended
    heap          \* the dicts, lists, tuples and Multis of a MultiRequest
                  \* call as objects: nodes[id] is the object id, kwargs,
                  \* arguments and sent refer to their roots

\* the futures one run may create (the bound is set by Init)
Handles == DOMAIN fstate

vars == <<on_error, workers, description, progress, shutdown, workq, nfut,
          fstate, fout, ftag, fcb, queue, wk, th, gen, out, raised, hist,
          kwargs, paths_items, arguments, frames, mpc, sent, result,
          verdict, comp, base_url, request, proxies, verify,
          burp_saved_state, call, heap>>

poolcfg == <<on_error, workers, description>>

\* the part of a MultiRequestFirst call that a MultiRequest call has not
fvars == <<verdict, comp>>

\* the state of a MultiRequest or MultiRequestFirst call
mvars == <<kwargs, paths_items, arguments, frames, mpc, sent, result,
           verdict, comp>>

\* the state of a ScopedSession
svars == <<base_url, request>>

\* the settings of a Session
bvars == <<proxies, verify, burp_saved_state, call>>

\* the objects of a MultiRequest call
hvars == <<heap>>

\* the state of the pool
pvars == <<on_error, workers, description, progress, shutdown, workq, nfut,
           fstate, fout, ftag, fcb, queue, wk, th, gen, out, raised, hist>>

\* --------------------------------------------------------------- helpers
SeqToSet(s) == {s[i] : i \in 1..Len(s)}

\* position of x in the sequence s, 0 when absent
Pos(s, x) == IF \E i \in 1..Len(s) : s[i] = x
             THEN CHOOSE i \in 1..Len(s) : s[i] = x
             ELSE 0

Terminal == {"CANCELLED", "CANCELLED_AND_NOTIFIED", "FINISHED"}

\* Future.cancelled()
cancelled(h) == fstate[h] \in {"CANCELLED", "CANCELLED_AND_NOTIFIED"}

\* Future.done()
done(h) == fstate[h] \in Terminal

IdleThread == [pc |-> "idle", fut |-> 0, tag |-> NoTag]
IdleWorker == [pc |-> "idle", item |-> 0]
NoGen == [pc |-> "none", kind |-> "none", done |-> {}, current_len |-> 0,
          old_len |-> 0, fin |-> <<>>, pending |-> {}, wfin |-> <<>>,
          idx |-> 0, n |-> 0, ys |-> <<>>, late |-> {}]
NoProgress == [on |-> FALSE, total |-> 0, completed |-> 0]
\* history: entered / closed: __enter__ / __exit__ have run; taken: futures a
\* worker took off the work queue; invoked: futures whose transport call was
\* made; given: the tag= of each submit; before: the futures whose submit
\* had returned when this one's began; returned: futures whose submit has
\* returned; inloop: futures submitted by the body of an as_completed
\* loop; ooo: a future finished before one created earlier; overtook: the
\* pairs <<h, e>> of a future h that finished while e, created earlier, was
\* not done
NoHist == [entered |-> FALSE, closed |-> FALSE, taken |-> {}, invoked |-> {},
           given |-> [h \in Handles |-> NoTag],
           before |-> [h \in Handles |-> {}],
           returned |-> {}, inloop |-> {}, ooo |-> FALSE, overtook |-> {}]

\* RequestPool.__init__ (via Session.pool): an empty pool of `workers`
\* workers with an error policy
PoolInit(n) ==
    /\ on_error \in Policies
    /\ workers \in 1..MaxWorkers
    /\ progress = NoProgress
    /\ shutdown = FALSE
    /\ workq = <<>>
    /\ nfut = 0
    /\ fstate = [h \in 1..n |-> "NONE"]
    /\ fout = [h \in 1..n |-> "none"]
    /\ ftag = [h \in 1..n |-> NoTag]
    /\ fcb = [h \in 1..n |-> FALSE]
    /\ queue = <<>>
    /\ wk = [w \in 1..MaxWorkers |-> IdleWorker]
    /\ \E T \in {{"main"}, Threads} : th = [t \in T |-> IdleThread]
    /\ gen = NoGen
    /\ out = <<>>
    /\ raised = "none"
    /\ hist = NoHist

\* the pool is used directly: no MultiRequest call
NoMultiRequest ==
    /\ kwargs = <<>>
    /\ paths_items = <<>>
    /\ arguments = <<>>
    /\ frames = <<>>
    /\ mpc = "none"
    /\ sent = <<>>
    /\ result = <<>>
    /\ verdict = <<>>
    /\ comp = <<>>

\* the session is not a ScopedSession
NoScopedSession ==
    /\ base_url = <<>>
    /\ request = <<>>

\* the objects of the arguments are not looked at
NoHeap == heap = <<>>

None == [none |-> TRUE]
EmptyDict == [dict |-> <<>>]
NoCall == [n |-> 0, op |-> "none", end |-> "none"]

\* Session.__init__: requests.Session.__init__ sets proxies = {}, then
\* self._burp_saved_state = {} and self.verify = False
NewSession ==
    /\ proxies = EmptyDict
    /\ verify = FALSE
    /\ burp_saved_state = EmptyDict
    /\ call = NoCall

\* session.pool(workers, on_error), used by one thread: no description,
\* hence no progress
Init ==
    /\ PoolInit(MaxHandles)
    /\ DOMAIN th = {"main"}
    /\ description = FALSE
    /\ NoScopedSession
    /\ NewSession
    /\ NoHeap
    /\ NoMultiRequest

\* the same pool, with a second thread that submits to it
InitThreads ==
    /\ PoolInit(MaxShared)
    /\ DOMAIN th = Threads
    /\ description = FALSE
    /\ NoScopedSession
    /\ NewSession
    /\ NoHeap
    /\ NoMultiRequest


\* session.pool(workers, on_error="raise", description="..."): a pool with
\* a progress, used by one thread
InitProgress ==
    /\ PoolInit(MaxHandles)
    /\ on_error = "raise"
    /\ DOMAIN th = {"main"}
    /\ description = TRUE
    /\ NoScopedSession
    /\ NewSession
    /\ NoHeap
    /\ NoMultiRequest

\* the main thread is not inside in_order() or inside the generator's code:
\* it is outside any retrieval, or in the body of its `for ... in
\* pool.as_completed()` loop
CallerFree(t) ==
    /\ th[t].pc = "idle"
    /\ hist.entered
    /\ t = "main" => gen.pc \in {"none", "body"}

\* Future._waiters / _AsCompletedWaiter.add_result, add_cancelled: the
\* waiter of the running concurrent.futures.as_completed() records h
notify(g, h) ==
    IF h \in g.pending THEN [g EXCEPT !.wfin = Append(@, h)] ELSE g

\* Future._invoke_callbacks for the callback of _submit_request:
\* lambda _: self._progress and self._progress.advance(0)
invoke_callbacks(p, h) ==
    IF fcb[h] /\ p.on THEN [p EXCEPT !.completed = @ + 1] ELSE p

\* ------------------------------------------------- RequestPool.__enter__
\* `with pool:` begins
Enter ==
    /\ ~hist.entered
    /\ progress' = IF description
                   THEN [on |-> TRUE, total |-> Len(queue), completed |-> 0]
                   ELSE progress
    /\ hist' = [hist EXCEPT !.entered = TRUE]
    /\ UNCHANGED <<poolcfg, shutdown, workq, nfut, fstate, fout, ftag, fcb,
                   queue, wk, th, gen, out, raised>>

\* ------------------------------------------ RequestPool._submit_request
\* ThreadPoolExecutor.submit once it has passed its shutdown check: creates
\* the future and queues its work item
new_work_item(t, tag) ==
    /\ nfut < Len(fstate)
    /\ nfut' = nfut + 1
    /\ fstate' = [fstate EXCEPT ![nfut + 1] = "PENDING"]
    /\ workq' = Append(workq, nfut + 1)
    /\ th' = [th EXCEPT ![t] = [pc |-> "tag", fut |-> nfut + 1,
                                tag |-> tag]]
    /\ hist' = [hist EXCEPT !.given[nfut + 1] = tag,
                            !.before[nfut + 1] = hist.returned,
                            !.inloop = IF t = "main" /\ gen.pc = "body"
                                       THEN @ \cup {nfut + 1} ELSE @]

\* a submit without the shutdown check
executor_submit_unchecked(t, tag) == new_work_item(t, tag)

\* ThreadPoolExecutor.submit: RuntimeError("cannot schedule new futures
\* after shutdown") once _shutdown is set
executor_submit(t, tag) ==
    IF shutdown
    THEN /\ th' = [th EXCEPT ![t].pc = "rejected"]
         /\ UNCHANGED <<nfut, fstate, workq, hist>>
    ELSE new_work_item(t, tag)

\* pool.get(url, tag=...), line 871: future = self._executor.submit(...);
\* the caller tags its requests TagBase + 1, TagBase + 2, ...
SubmitCall(t) ==
    /\ CallerFree(t)
    /\ executor_submit(t, TagBase + nfut + 1)
    /\ UNCHANGED <<poolcfg, progress, shutdown, fout, ftag, fcb, queue, wk,
                   gen, out, raised>>

\* the RuntimeError of a refused submit has left _submit_request
SubmitRejected(t) ==
    /\ th[t].pc = "rejected"
    /\ th' = [th EXCEPT ![t] = IdleThread]
    /\ UNCHANGED <<poolcfg, progress, shutdown, workq, nfut, fstate, fout,
                   ftag, fcb, queue, wk, gen, out, raised, hist>>

\* mutant of SubmitTag: the tag is computed from the executor's count of
\* futures when the assignment runs, not from the caller's argument
SubmitTag_shared(t) ==
    /\ th[t].pc = "tag"
    /\ ftag' = [ftag EXCEPT ![th[t].fut] = TagBase + nfut]
    /\ th' = [th EXCEPT ![t].pc = "append"]
    /\ UNCHANGED <<poolcfg, progress, shutdown, workq, nfut, fstate, fout,
                   fcb, queue, wk, gen, out, raised, hist>>

\* line 872: future.tag = tag
SubmitTag(t) ==
    /\ th[t].pc = "tag"
    /\ ftag' = [ftag EXCEPT ![th[t].fut] = th[t].tag]
    /\ th' = [th EXCEPT ![t].pc = "append"]
    /\ UNCHANGED <<poolcfg, progress, shutdown, workq, nfut, fstate, fout,
                   fcb, queue, wk, gen, out, raised, hist>>

\* a queue that takes the newest future first
queue_prepend(q, h) == <<h>> \o q

\* line 873: self._queue.append(future)
queue_append(q, h) == Append(q, h)

\* line 873, and line 874 `if self._progress` of a pool that has no
\* description (its _progress is always None): return future
SubmitAppend(t) ==
    /\ th[t].pc = "append"
    /\ queue' = queue_append(queue, th[t].fut)
    /\ IF description
       THEN /\ th' = [th EXCEPT ![t].pc = "progress"]
            /\ hist' = hist
       ELSE /\ th' = [th EXCEPT ![t] = IdleThread]
            /\ hist' = [hist EXCEPT !.returned = @ \cup {th[t].fut}]
    /\ gen' = IF gen.kind = "as_completed"
              THEN [gen EXCEPT !.late = @ \cup {th[t].fut}] ELSE gen
    /\ UNCHANGED <<poolcfg, progress, shutdown, workq, nfut, fstate, fout,
                   ftag, fcb, wk, out, raised>>

\* lines 874-875: if self._progress: update(0, total=len(self._queue));
\* without a progress the call returns here
SubmitProgress(t) ==
    /\ th[t].pc = "progress"
    /\ IF progress.on
       THEN /\ progress' = [progress EXCEPT !.total = Len(queue)]
            /\ th' = [th EXCEPT ![t].pc = "callback"]
            /\ hist' = hist
       ELSE /\ progress' = progress
            /\ th' = [th EXCEPT ![t] = IdleThread]
            /\ hist' = [hist EXCEPT !.returned = @ \cup {th[t].fut}]
    /\ UNCHANGED <<poolcfg, shutdown, workq, nfut, fstate, fout, ftag, fcb,
                   queue, wk, gen, out, raised>>

\* lines 876-879: future.add_done_callback(...); return future.  A future
\* that is already done runs the callback at once.
SubmitCallback(t) ==
    /\ th[t].pc = "callback"
    /\ LET h == th[t].fut IN
       IF done(h)
       THEN /\ progress' = IF progress.on
                           THEN [progress EXCEPT !.completed = @ + 1]
                           ELSE progress
            /\ fcb' = fcb
       ELSE /\ fcb' = [fcb EXCEPT ![h] = TRUE]
            /\ progress' = progress
    /\ th' = [th EXCEPT ![t] = IdleThread]
    /\ hist' = [hist EXCEPT !.returned = @ \cup {th[t].fut}]
    /\ UNCHANGED <<poolcfg, shutdown, workq, nfut, fstate, fout, ftag,
                   queue, wk, gen, out, raised>>

\* ------------------------------- ThreadPoolExecutor worker (_worker, run)
\* an executor that starts a thread for every work item, whatever
\* max_workers is
WorkerGet_unbounded(w) ==
    /\ wk[w].pc = "idle"
    /\ workq # <<>>
    /\ wk' = [wk EXCEPT ![w] = [pc |-> "got", item |-> Head(workq)]]
    /\ workq' = Tail(workq)
    /\ hist' = [hist EXCEPT !.taken = @ \cup {Head(workq)}]
    /\ UNCHANGED <<poolcfg, progress, shutdown, nfut, fstate, fout, ftag,
                   fcb, queue, th, gen, out, raised>>

\* work_item = work_queue.get(block=True), by an idle worker (the workers
\* are interchangeable: the idle one of least number takes it)
WorkerGet(w) ==
    /\ w <= workers
    /\ wk[w].pc = "idle"
    /\ \A v \in 1..(w - 1) : wk[v].pc # "idle"
    /\ workq # <<>>
    /\ wk' = [wk EXCEPT ![w] = [pc |-> "got", item |-> Head(workq)]]
    /\ workq' = Tail(workq)
    /\ hist' = [hist EXCEPT !.taken = @ \cup {Head(workq)}]
    /\ UNCHANGED <<poolcfg, progress, shutdown, nfut, fstate, fout, ftag,
                   fcb, queue, th, gen, out, raised>>

\* _WorkItem.run: future.set_running_or_notify_cancel(); a future that is
\* not cancelled becomes RUNNING and the transport is called
WorkerStart(w) ==
    /\ wk[w].pc = "got"
    /\ LET h == wk[w].item IN
       IF fstate[h] = "CANCELLED"
       THEN /\ fstate' = [fstate EXCEPT ![h] = "CANCELLED_AND_NOTIFIED"]
            /\ gen' = notify(gen, h)
            /\ wk' = [wk EXCEPT ![w] = IdleWorker]
            /\ hist' = hist
       ELSE /\ fstate' = [fstate EXCEPT ![h] = "RUNNING"]
            /\ gen' = gen
            /\ wk' = [wk EXCEPT ![w].pc = "run"]
            /\ hist' = [hist EXCEPT !.invoked = @ \cup {h}]
    /\ UNCHANGED <<poolcfg, progress, shutdown, workq, nfut, fout, ftag,
                   fcb, queue, th, out, raised>>

\* the transport call returns (set_result) or raises (set_exception)
WorkerFinish(w) ==
    /\ wk[w].pc = "run"
    /\ LET h == wk[w].item IN
       /\ fstate' = [fstate EXCEPT ![h] = "FINISHED"]
       /\ \E o \in {"result", "exception"} : fout' = [fout EXCEPT ![h] = o]
       /\ gen' = notify(gen, h)
       /\ progress' = invoke_callbacks(progress, h)
    /\ wk' = [wk EXCEPT ![w] = IdleWorker]
    /\ hist' = [hist EXCEPT
                   !.ooo = @ \/ \E e \in 1..(wk[w].item - 1) : ~done(e),
                   !.overtook = @ \cup {<<wk[w].item, e>> :
                                          e \in {x \in 1..(wk[w].item - 1) :
                                                   ~done(x)}}]
    /\ UNCHANGED <<poolcfg, shutdown, workq, nfut, ftag, fcb, queue, th,
                   out, raised>>

\* Future.set_result / set_exception, first part: under the future's lock
\* the state becomes FINISHED and the waiters are told; the done-callbacks
\* are invoked after the lock is released
WorkerSetResult(w) ==
    /\ wk[w].pc = "run"
    /\ LET h == wk[w].item IN
       /\ fstate' = [fstate EXCEPT ![h] = "FINISHED"]
       /\ \E o \in {"result", "exception"} : fout' = [fout EXCEPT ![h] = o]
       /\ gen' = notify(gen, h)
    /\ wk' = [wk EXCEPT ![w].pc = "callbacks"]
    /\ hist' = [hist EXCEPT
                   !.ooo = @ \/ \E e \in 1..(wk[w].item - 1) : ~done(e),
                   !.overtook = @ \cup {<<wk[w].item, e>> :
                                          e \in {x \in 1..(wk[w].item - 1) :
                                                   ~done(x)}}]
    /\ UNCHANGED <<poolcfg, progress, shutdown, workq, nfut, ftag, fcb,
                   queue, th, out, raised>>

\* Future.set_result / set_exception, second part: self._invoke_callbacks()
WorkerCallbacks(w) ==
    /\ wk[w].pc = "callbacks"
    /\ progress' = invoke_callbacks(progress, wk[w].item)
    /\ wk' = [wk EXCEPT ![w] = IdleWorker]
    /\ UNCHANGED <<poolcfg, shutdown, workq, nfut, fstate, fout, ftag, fcb,
                   queue, th, gen, out, raised, hist>>

\* ------------------------------------------------------- Future.cancel()
\* a cancel() that also stops a future whose transport call is in progress
future_cancel_running(h) ==
    IF fstate[h] \in {"PENDING", "RUNNING"}
    THEN /\ fstate' = [fstate EXCEPT ![h] = "CANCELLED"]
         /\ progress' = invoke_callbacks(progress, h)
    ELSE UNCHANGED <<fstate, progress>>

\* only a PENDING future is cancelled; the done-callbacks run
future_cancel(h) ==
    IF fstate[h] = "PENDING"
    THEN /\ fstate' = [fstate EXCEPT ![h] = "CANCELLED"]
         /\ progress' = invoke_callbacks(progress, h)
    ELSE UNCHANGED <<fstate, progress>>

\* the caller calls cancel() on a Handle that a submit returned to it
Cancel(h) ==
    /\ CallerFree("main")
    /\ h \in hist.returned
    /\ future_cancel(h)
    /\ UNCHANGED <<poolcfg, shutdown, workq, nfut, fout, ftag, fcb, queue,
                   wk, th, gen, out, raised, hist>>

\* --------------------------------------------------- RequestPool.__exit__
\* lines 865-867: stop and forget the progress
CloseProgress ==
    /\ CallerFree("main")
    /\ progress' = NoProgress
    /\ th' = [th EXCEPT !["main"].pc = "shutdown"]
    /\ UNCHANGED <<poolcfg, shutdown, workq, nfut, fstate, fout, ftag, fcb,
                   queue, wk, gen, out, raised, hist>>

\* line 868, ThreadPoolExecutor.shutdown: self._shutdown = True
CloseShutdown ==
    /\ th["main"].pc = "shutdown"
    /\ shutdown' = TRUE
    /\ th' = [th EXCEPT !["main"].pc = "drain"]
    /\ UNCHANGED <<poolcfg, progress, workq, nfut, fstate, fout, ftag, fcb,
                   queue, wk, gen, out, raised, hist>>

\* mutant of CloseDrain: shutdown(wait=False) without cancel_futures leaves
\* the work queue as it is
CloseDrain_keep ==
    /\ th["main"].pc = "drain"
    /\ th' = [th EXCEPT !["main"] = IdleThread]
    /\ hist' = [hist EXCEPT !.closed = TRUE]
    /\ UNCHANGED <<poolcfg, progress, shutdown, workq, nfut, fstate, fout,
                   ftag, fcb, queue, wk, gen, out, raised>>

\* shutdown(wait=False, cancel_futures=True): work_item = get_nowait();
\* work_item.future.cancel(), until the work queue is empty
CloseDrain ==
    /\ th["main"].pc = "drain"
    /\ IF workq # <<>>
       THEN /\ workq' = Tail(workq)
            /\ future_cancel(Head(workq))
            /\ UNCHANGED <<th, hist>>
       ELSE /\ th' = [th EXCEPT !["main"] = IdleThread]
            /\ hist' = [hist EXCEPT !.closed = TRUE]
            /\ UNCHANGED <<workq, fstate, progress>>
    /\ UNCHANGED <<poolcfg, shutdown, nfut, fout, ftag, fcb, queue, wk,
                   gen, out, raised>>


\* ------------------------------------------------ RequestPool._tag_results
\* mutant of tag_results: "skip" is handled like "return"
tag_results_skip_as_return(h) ==
    IF cancelled(h)
    THEN [act |-> "raise", exc |-> "CancelledError"]
    ELSE IF fout[h] = "result"
    THEN [act |-> "yield",
          item |-> [h |-> h, kind |-> "response", tag |-> ftag[h]]]
    ELSE IF on_error = "raise"
    THEN [act |-> "raise", exc |-> "exception"]
    ELSE [act |-> "yield",
          item |-> [h |-> h, kind |-> "error", tag |-> ftag[h]]]

\* mutant of tag_results: a returned error is not given the tag
tag_results_untagged_error(h) ==
    IF cancelled(h)
    THEN [act |-> "raise", exc |-> "CancelledError"]
    ELSE IF fout[h] = "result"
    THEN [act |-> "yield",
          item |-> [h |-> h, kind |-> "response", tag |-> ftag[h]]]
    ELSE IF on_error = "raise"
    THEN [act |-> "raise", exc |-> "exception"]
    ELSE IF on_error = "skip"
    THEN [act |-> "skip"]
    ELSE [act |-> "yield",
          item |-> [h |-> h, kind |-> "error", tag |-> NoTag]]

\* mutant of tag_results: "raise" drops the failed future and goes on
tag_results_raise_as_skip(h) ==
    IF cancelled(h)
    THEN [act |-> "raise", exc |-> "CancelledError"]
    ELSE IF fout[h] = "result"
    THEN [act |-> "yield",
          item |-> [h |-> h, kind |-> "response", tag |-> ftag[h]]]
    ELSE IF on_error \in {"raise", "skip"}
    THEN [act |-> "skip"]
    ELSE [act |-> "yield",
          item |-> [h |-> h, kind |-> "error", tag |-> ftag[h]]]

\* one turn of `for future in generator` for a done future h (lines
\* 900-911): what the consumer gets
tag_results(h) ==
    IF cancelled(h)
    THEN \* line 900: future.exception() raises CancelledError
         [act |-> "raise", exc |-> "CancelledError"]
    ELSE IF fout[h] = "result"
    THEN [act |-> "yield",
          item |-> [h |-> h, kind |-> "response", tag |-> ftag[h]]]
    ELSE IF on_error = "raise"
    THEN [act |-> "raise", exc |-> "exception"]
    ELSE IF on_error = "skip"
    THEN [act |-> "skip"]
    ELSE [act |-> "yield",
          item |-> [h |-> h, kind |-> "error", tag |-> ftag[h]]]

\* a retrieval that stops, by an exception or at its end, drops its state
stopped(g, pc) ==
    [g EXCEPT !.pc = pc, !.fin = <<>>, !.pending = {}, !.wfin = <<>>]

\* ------------------------------------------------- RequestPool.in_order
\* list(self._tag_results(self._queue)): the list iterator starts at 0
InOrderCall ==
    /\ CallerFree("main")
    /\ gen' = [NoGen EXCEPT !.pc = "io", !.kind = "in_order", !.idx = 1]
    /\ out' = <<>>
    /\ raised' = "none"
    /\ UNCHANGED <<poolcfg, progress, shutdown, workq, nfut, fstate, fout,
                   ftag, fcb, queue, wk, th, hist>>

\* mutant of in_order_item: the list is walked from its end
in_order_item_reversed(q, i) == q[Len(q) + 1 - i]

\* the future the list iterator of self._queue gives at index i
in_order_item(q, i) == q[i]

\* one turn of the loop: the iterator reads the live list; future.exception()
\* blocks until the future is done.  At the end of the list the list is
\* returned (gen.n: the length the list had then).
InOrderNext ==
    /\ gen.pc = "io"
    /\ IF gen.idx > Len(queue)
       THEN /\ gen' = [gen EXCEPT !.pc = "returned", !.n = Len(queue)]
            /\ UNCHANGED <<out, raised>>
       ELSE LET h == in_order_item(queue, gen.idx)
                r == tag_results(h)
            IN /\ done(h)
               /\ IF r.act = "raise"
                  THEN /\ raised' = r.exc
                       /\ gen' = stopped(gen, "raised")
                       /\ out' = out
                  ELSE /\ raised' = raised
                       /\ gen' = [gen EXCEPT !.idx = @ + 1]
                       /\ out' = IF r.act = "yield" THEN Append(out, r.item)
                                 ELSE out
    /\ UNCHANGED <<poolcfg, progress, shutdown, workq, nfut, fstate, fout,
                   ftag, fcb, queue, wk, th, hist>>

\* ------------------------------------- RequestPool._as_completed_futures
\* all orders in which a set can be listed (list(finished) of as_completed)
RECURSIVE Perms(_)
Perms(S) ==
    IF S = {} THEN {<<>>}
    ELSE UNION {{<<x>> \o p : p \in Perms(S \ {x})} : x \in S}

\* lines 917-918: done = set(); current_len = len(self._queue)
AsCompletedCall ==
    /\ CallerFree("main")
    /\ gen' = [NoGen EXCEPT !.pc = "top", !.kind = "as_completed",
                            !.current_len = Len(queue)]
    /\ out' = <<>>
    /\ raised' = "none"
    /\ UNCHANGED <<poolcfg, progress, shutdown, workq, nfut, fstate, fout,
                   ftag, fcb, queue, wk, th, hist>>

\* line 921: todo = set(self._queue) - done
todo(q, d) == SeqToSet(q) \ d

\* lines 920-923: old_len = current_len; todo = ...; as_completed(todo, 0.3)
\* takes its snapshot: futures already finished (or cancelled and notified)
\* are listed in any order, the waiter watches the others
AsCompletedTop ==
    /\ gen.pc = "top"
    /\ LET td == todo(queue, gen.done)
           finished == {h \in td :
                          fstate[h] \in {"CANCELLED_AND_NOTIFIED", "FINISHED"}}
       IN \E p \in Perms(finished) :
            gen' = [gen EXCEPT !.pc = "iter", !.old_len = gen.current_len,
                               !.fin = p, !.pending = td \ finished,
                               !.wfin = <<>>]
    /\ UNCHANGED <<poolcfg, progress, shutdown, workq, nfut, fstate, fout,
                   ftag, fcb, queue, wk, th, out, raised, hist>>

\* mutant of after_loop: the generator ends after one pass over the
\* futures it found, whatever was submitted meanwhile
after_loop_snapshot(g, qlen) ==
    [stopped(g, "ended") EXCEPT !.current_len = qlen, !.n = qlen]

\* a loop that never takes the break of line 933
after_loop_forever(g, qlen) ==
    [stopped(g, "top") EXCEPT !.current_len = qlen, !.n = qlen]

\* lines 929-933 after the for loop: current_len = len(self._queue);
\* if current_len == old_len: break
after_loop(g, qlen) ==
    [stopped(g, IF qlen = g.old_len THEN "ended" ELSE "top")
        EXCEPT !.current_len = qlen, !.n = qlen]

\* next(as_completed(todo, 0.3)) yields the next finished future: line 924
\* adds it to done, line 925 yields it into _tag_results (line 945)
AsCompletedYield ==
    /\ gen.pc = "iter"
    /\ gen.fin # <<>>
    /\ LET h == Head(gen.fin)
           r == tag_results(h)
           g == [gen EXCEPT !.fin = Tail(gen.fin), !.pending = @ \ {h},
                            !.done = @ \cup {h}, !.ys = Append(@, h)]
       IN IF r.act = "raise"
          THEN /\ raised' = r.exc
               /\ gen' = stopped(g, "raised")
               /\ out' = out
          ELSE /\ raised' = raised
               /\ gen' = [g EXCEPT !.pc = IF r.act = "yield" THEN "body"
                                          ELSE "resume"]
               /\ out' = IF r.act = "yield" THEN Append(out, r.item) ELSE out
    /\ UNCHANGED <<poolcfg, progress, shutdown, workq, nfut, fstate, fout,
                   ftag, fcb, queue, wk, th, hist>>

\* next(as_completed(todo, 0.3)) with nothing left to yield: the for loop
\* ends when no future is pending (lines 929-933), else the waiter's
\* finished futures are taken, in the order they finished
AsCompletedWait ==
    /\ gen.pc = "iter"
    /\ gen.fin = <<>>
    /\ IF gen.pending = {}
       THEN gen' = after_loop(gen, Len(queue))
       ELSE /\ gen.wfin # <<>>
            /\ gen' = [gen EXCEPT !.fin = gen.wfin, !.wfin = <<>>]
    /\ UNCHANGED <<poolcfg, progress, shutdown, workq, nfut, fstate, fout,
                   ftag, fcb, queue, wk, th, out, raised, hist>>

\* the 0.3 s of as_completed are over while futures are pending:
\* TimeoutError, line 931 `continue` (current_len keeps its last value)
AsCompletedTimeout ==
    /\ gen.pc = "iter"
    /\ gen.fin = <<>> /\ gen.pending # {}
    /\ gen' = stopped(gen, "top")
    /\ UNCHANGED <<poolcfg, progress, shutdown, workq, nfut, fstate, fout,
                   ftag, fcb, queue, wk, th, out, raised, hist>>

\* lines 926-928 on resuming after the yield: current_len =
\* len(self._queue); if current_len > old_len: break
after_yield(g, qlen) ==
    IF qlen > g.old_len
    THEN after_loop(g, qlen)
    ELSE [g EXCEPT !.current_len = qlen, !.pc = "iter"]

\* the consumer asks for the next result (or _tag_results continues
\* after a skipped future)
AsCompletedResume ==
    /\ \/ gen.pc = "resume"
       \/ gen.pc = "body" /\ th["main"].pc = "idle"
    /\ gen' = after_yield(gen, Len(queue))
    /\ UNCHANGED <<poolcfg, progress, shutdown, workq, nfut, fstate, fout,
                   ftag, fcb, queue, wk, th, out, raised, hist>>

\* the consumer has taken the outcome of a retrieval that is over (the
\* list of in_order, the end of the as_completed loop, or the exception)
RetrievalOver ==
    /\ gen.pc \in {"ended", "returned", "raised"}
    /\ gen' = NoGen
    /\ out' = <<>>
    /\ raised' = "none"
    /\ UNCHANGED <<poolcfg, progress, shutdown, workq, nfut, fstate, fout,
                   ftag, fcb, queue, wk, th, hist>>

\* ========================================================== MultiRequest
\* Values of request arguments: a scalar, a list, a tuple, a dict (its
\* entries <<key, value>> in insertion order) or a Multi (its items); a
\* record of one field, named after the kind of value.
Scalar(x) == [scalar |-> x]
List(xs) == [list |-> xs]
Tuple(xs) == [tuple |-> xs]
Dict(es) == [dict |-> es]
Multi(items) == [multi |-> items]

\* isinstance(value, ...)
isinstance(value, kinds) == DOMAIN value \subseteq kinds

\* a step of a path: a dict key, or an index into a list or a tuple
Key(x) == [key |-> x]
Idx(i) == [idx |-> i]

\* MultiRequest._find_multis_in_value: the (path, Multi) pairs added to
\* `paths`, in the order in which they are added
RECURSIVE find_multis_in_value(_, _)
RECURSIVE find_multis_in_seq(_, _, _)
RECURSIVE find_multis_in_dict(_, _, _)
\* a walk that goes on into the items of a Multi
find_multis_descending(path, value) ==
    IF isinstance(value, {"multi"})
    THEN << <<path, value>> >> \o find_multis_in_seq(path, value.multi, 1)
    ELSE IF isinstance(value, {"list"})
    THEN find_multis_in_seq(path, value.list, 1)
    ELSE IF isinstance(value, {"tuple"})
    THEN find_multis_in_seq(path, value.tuple, 1)
    ELSE IF isinstance(value, {"dict"})
    THEN find_multis_in_dict(path, value.dict, 1)
    ELSE <<>>

find_multis_in_value(path, value) ==
    IF isinstance(value, {"multi"}) THEN << <<path, value>> >>
    ELSE IF isinstance(value, {"list"})
    THEN find_multis_in_seq(path, value.list, 1)
    ELSE IF isinstance(value, {"tuple"})
    THEN find_multis_in_seq(path, value.tuple, 1)
    ELSE IF isinstance(value, {"dict"})
    THEN find_multis_in_dict(path, value.dict, 1)
    ELSE <<>>

\* line 1047: for i, item in enumerate(value), from the i-th item on
find_multis_in_seq(path, xs, i) ==
    IF i > Len(xs) THEN <<>>
    ELSE find_multis_in_value(Append(path, Idx(i - 1)), xs[i])
         \o find_multis_in_seq(path, xs, i + 1)

\* line 1050: for key, item in value.items(), from the i-th entry on
find_multis_in_dict(path, es, i) ==
    IF i > Len(es) THEN <<>>
    ELSE find_multis_in_value(Append(path, Key(es[i][1])), es[i][2])
         \o find_multis_in_dict(path, es, i + 1)

\* mutant of multi_items: the Multis are taken in the reverse of the order
\* of their discovery
multi_items_reversed(found) ==
    [i \in 1..Len(found) |->
        <<found[Len(found) + 1 - i][1], found[Len(found) + 1 - i][2].multi>>]

\* lines 1024-1029: each Multi is replaced by its items (a list)
multi_items(found) ==
    [i \in 1..Len(found) |-> <<found[i][1], found[i][2].multi>>]

\* MultiRequest.__arguments_copy: dicts are copied, lists and tuples are
\* copied as lists, a Multi becomes "X"
RECURSIVE arguments_copy(_)
arguments_copy(value) ==
    IF isinstance(value, {"dict"})
    THEN Dict([i \in 1..Len(value.dict) |->
                  <<value.dict[i][1], arguments_copy(value.dict[i][2])>>])
    ELSE IF isinstance(value, {"list"})
    THEN List([i \in 1..Len(value.list) |-> arguments_copy(value.list[i])])
    ELSE IF isinstance(value, {"tuple"})
    THEN List([i \in 1..Len(value.tuple) |->
                  arguments_copy(value.tuple[i])])
    ELSE IF isinstance(value, {"multi"}) THEN Scalar("X")
    ELSE value

\* deep[stop]
get_item(deep, stop) ==
    IF isinstance(deep, {"dict"})
    THEN (CHOOSE e \in SeqToSet(deep.dict) : e[1] = stop.key)[2]
    ELSE deep.list[stop.idx + 1]

\* deep[last] = value: an entry of a dict, an item of a list; a tuple
\* does not support item assignment
set_item(deep, last, value) ==
    IF isinstance(deep, {"dict"})
    THEN IF \E i \in 1..Len(deep.dict) : deep.dict[i][1] = last.key
         THEN Dict([i \in 1..Len(deep.dict) |->
                       IF deep.dict[i][1] = last.key
                       THEN <<last.key, value>> ELSE deep.dict[i]])
         ELSE Dict(Append(deep.dict, <<last.key, value>>))
    ELSE IF isinstance(deep, {"list"})
    THEN List([deep.list EXCEPT ![last.idx + 1] = value])
    ELSE [TypeError |-> deep]

\* mutant of replace_at_path: the value is assigned at the first step of
\* the path, without descending
replace_at_path_top(args, path, value) == set_item(args, path[1], value)

\* MultiRequest._replace_at_path
RECURSIVE replace_at_path(_, _, _)
replace_at_path(args, path, value) ==
    IF Len(path) = 1 THEN set_item(args, path[1], value)
    ELSE set_item(args, path[1],
                  replace_at_path(get_item(args, path[1]), Tail(path), value))

\* mutant of set_items_union: only the innermost Multi's choice is kept
set_items_last(set_items, path, item) == << <<path, item>> >>

\* line 1095: set_items | {path: item}
set_items_union(set_items, path, item) ==
    IF \E i \in 1..Len(set_items) : set_items[i][1] = path
    THEN [i \in 1..Len(set_items) |->
             IF set_items[i][1] = path THEN <<path, item>> ELSE set_items[i]]
    ELSE Append(set_items, <<path, item>>)


\* ------------------------------------------- arguments of a multi() call
Scalars == {"a", "b"}

\* the items of a Multi: up to MaxItems scalars, equal ones included (the
\* first item is named "a")
ItemLists ==
    {s \in UNION {[1..n -> Scalars] : n \in 0..MaxItems} :
        s = <<>> \/ s[1] = "a"}

Multis == {Multi([i \in 1..Len(s) |-> Scalar(s[i])]) : s \in ItemLists}

\* data=: a scalar, a Multi, a dict of one or two Multis, a list or a
\* tuple that holds a Multi, a tuple with a Multi inside a dict
DataValues ==
    {Scalar("a")} \cup Multis
    \cup {Dict(<< <<"username", m>>, <<"password", n>> >>) :
             m \in Multis, n \in Multis}
    \cup {List(<<Scalar("b"), m>>) : m \in Multis}
    \cup {Dict(<< <<"ids", Tuple(<<m, Scalar("b")>>)>> >>) : m \in Multis}

\* params=: a scalar, or a dict that holds a Multi
ParamsValues ==
    {Scalar("a")} \cup {Dict(<< <<"id", m>> >>) : m \in Multis}

\* number of Multis in a value
CountMultis(value) ==
    Len(find_multis_in_value(<<>>, value))

\* MultiRequest.post(url, data=..., params=...): kwargs of _run_requests,
\* with at most MaxMultis Multis
Options ==
    {o \in {Dict(<< <<"url", Scalar("a")>>, <<"data", d>>, <<"params", p>> >>) :
               d \in DataValues, p \in ParamsValues} :
        CountMultis(o) <= MaxMultis}

RECURSIVE Pow(_, _)
Pow(b, e) == IF e = 0 THEN 1 ELSE b * Pow(b, e - 1)

\* session.multi(workers, on_error).post(...): _run_requests begins (the
\* pool of line 1015 is made; room for one request more than the largest
\* product)
InitMulti ==
    /\ PoolInit(Pow(MaxItems, MaxMultis) + 1)
    /\ DOMAIN th = {"main"}
    /\ description = FALSE
    /\ NoScopedSession
    /\ NewSession
    /\ NoHeap
    /\ kwargs \in Options
    /\ paths_items = <<>>
    /\ arguments = <<>>
    /\ frames = <<>>
    /\ mpc = "start"
    /\ sent = <<>>
    /\ result = <<>>
    /\ verdict = <<>>
    /\ comp = <<>>

\* ------------------------------------------ MultiRequest._run_requests
\* lines 1016-1034: find the Multis, take their items, copy the arguments
RunRequests ==
    /\ mpc = "start"
    /\ paths_items' = multi_items(find_multis_in_value(<<>>, kwargs))
    /\ arguments' = arguments_copy(kwargs)
    /\ mpc' = "with"
    /\ UNCHANGED <<pvars, kwargs, frames, sent, result>>

\* line 1036 `with pool:` and the call of line 1037, with set_items = {}
MultiEnter ==
    /\ mpc = "with"
    /\ Enter
    /\ frames' = << [d |-> 1, i |-> 0, set_items |-> <<>>] >>
    /\ mpc' = "iter"
    /\ UNCHANGED <<kwargs, paths_items, arguments, sent, result>>

\* ------------------------------------------ MultiRequest._iter_set_path
\* a call whose paths_items is paths_items[d..], having done i items
Top == frames[Len(frames)]
Pop(fs) == SubSeq(fs, 1, Len(fs) - 1)

\* lines 1092-1096: the next item of the first Multi is put at its path
\* and the call recurses on the other Multis
IterSetPath ==
    /\ mpc = "iter" /\ frames # <<>> /\ th["main"].pc = "idle"
    /\ Top.d <= Len(paths_items)
    /\ Top.i < Len(paths_items[Top.d][2])
    /\ LET path == paths_items[Top.d][1]
           item == paths_items[Top.d][2][Top.i + 1]
       IN /\ arguments' = replace_at_path(arguments, path, item)
          /\ frames' = Append([frames EXCEPT ![Len(frames)].i = @ + 1],
                              [d |-> Top.d + 1, i |-> 0,
                               set_items |->
                                   set_items_union(Top.set_items, path, item)])
    /\ UNCHANGED <<pvars, kwargs, paths_items, mpc, sent, result>>

\* line 1097: the items are exhausted, return
IterReturn ==
    /\ mpc = "iter" /\ frames # <<>> /\ th["main"].pc = "idle"
    /\ Top.d <= Len(paths_items)
    /\ Top.i = Len(paths_items[Top.d][2])
    /\ frames' = Pop(frames)
    /\ UNCHANGED <<pvars, kwargs, paths_items, arguments, mpc, sent, result>>

\* lines 1099-1100: no more path: the arguments are copied and
\* method(**arguments, tag=set_items) is called (_submit_request, line 871)
IterSubmit ==
    /\ mpc = "iter" /\ frames # <<>>
    /\ Top.d > Len(paths_items)
    /\ CallerFree("main")
    /\ executor_submit("main", Top.set_items)
    /\ sent' = Append(sent, arguments_copy(arguments))
    /\ frames' = Pop(frames)
    /\ UNCHANGED <<poolcfg, progress, shutdown, fout, ftag, fcb, queue, wk,
                   gen, out, raised>>
    /\ UNCHANGED <<kwargs, paths_items, arguments, mpc, result>>

\* line 1038 and _get_results: pool.in_order()
MultiGetResults ==
    /\ mpc = "iter" /\ frames = <<>>
    /\ InOrderCall
    /\ mpc' = "results"
    /\ UNCHANGED <<kwargs, paths_items, arguments, frames, sent, result>>

\* in_order() has returned its list or raised: _run_requests leaves the
\* `with` block with that outcome
MultiResult ==
    /\ mpc = "results"
    /\ RetrievalOver
    /\ result' = [responses |-> out, raised |-> raised]
    /\ mpc' = "exit"
    /\ UNCHANGED <<kwargs, paths_items, arguments, frames, sent>>

\* pool.__exit__ begins
MultiExit ==
    /\ mpc = "exit"
    /\ CloseProgress
    /\ mpc' = "closing"
    /\ UNCHANGED <<kwargs, paths_items, arguments, frames, sent, result>>

\* pool.__exit__ is over: the caller has the outcome
MultiDone ==
    /\ mpc = "closing"
    /\ hist.closed
    /\ mpc' = "done"
    /\ UNCHANGED <<pvars, kwargs, paths_items, arguments, frames, sent,
                   result>>


\* ==================================================== MultiRequestFirst
\* session.first(filter).get(url, params=...): url is a scalar or a Multi,
\* params= a scalar or a dict that holds a Multi; the values of a Multi
\* differ
FirstOptions ==
    LET Ms == {m \in Multis :
                  \A i, j \in 1..Len(m.multi) :
                     i # j => m.multi[i] # m.multi[j]}
    IN {Dict(<< <<"url", u>>, <<"params", p>> >>) :
           u \in {Scalar("a")} \cup Ms,
           p \in {Scalar("a")} \cup {Dict(<< <<"id", m>> >>) : m \in Ms}}

\* session.first(filter, workers, on_error).get(...): _run_requests begins
InitFirst ==
    /\ PoolInit(Pow(MaxItems, MaxMultis) + 1)
    /\ DOMAIN th = {"main"}
    /\ description = FALSE
    /\ NoScopedSession
    /\ NewSession
    /\ NoHeap
    /\ kwargs \in FirstOptions
    /\ paths_items = <<>>
    /\ arguments = <<>>
    /\ frames = <<>>
    /\ mpc = "start"
    /\ sent = <<>>
    /\ result = <<>>
    /\ verdict = [h \in Handles |-> "none"]
    /\ comp = <<>>

\* the transport call of a request ends: its outcome fixes what the
\* caller's filter will do with it (a failure reaches the filter only when
\* on_error is "return")
FirstWorkerFinish(w) ==
    /\ WorkerFinish(w)
    /\ \E v \in IF fout'[wk[w].item] = "exception" /\ on_error # "return"
                THEN {"no"} ELSE {"yes", "no", "raise"} :
          /\ verdict' = [verdict EXCEPT ![wk[w].item] = v]
          /\ comp' = IF v = "yes" THEN Append(comp, wk[w].item) ELSE comp
    /\ UNCHANGED <<kwargs, paths_items, arguments, frames, mpc, sent, result>>

\* line 1038 and line 1120: for response in pool.as_completed()
FirstGetResults ==
    /\ mpc = "iter" /\ frames = <<>>
    /\ AsCompletedCall
    /\ mpc' = "first"
    /\ UNCHANGED <<kwargs, paths_items, arguments, frames, sent, result,
                   fvars>>

\* mutant of filter: the result of the filter is negated
filter_negated(response) ==
    IF verdict[response.h] = "yes" THEN "no"
    ELSE IF verdict[response.h] = "no" THEN "yes"
    ELSE verdict[response.h]

\* self._filter(response) for the response the generator has just yielded
filter(response) == verdict[response.h]

\* lines 1121-1122: the filter accepts the response: return response
FirstMatch ==
    /\ mpc = "first" /\ gen.pc = "body"
    /\ filter(out[Len(out)]) = "yes"
    /\ result' = [kind |-> "response", response |-> out[Len(out)]]
    /\ mpc' = "exit"
    /\ gen' = NoGen /\ out' = <<>> /\ raised' = "none"
    /\ UNCHANGED <<poolcfg, progress, shutdown, workq, nfut, fstate, fout,
                   ftag, fcb, queue, wk, th, hist>>
    /\ UNCHANGED <<kwargs, paths_items, arguments, frames, sent, fvars>>

\* line 1121: the filter raises
FirstFilterRaises ==
    /\ mpc = "first" /\ gen.pc = "body"
    /\ filter(out[Len(out)]) = "raise"
    /\ result' = [kind |-> "raised", exc |-> "FilterError"]
    /\ mpc' = "exit"
    /\ gen' = NoGen /\ out' = <<>> /\ raised' = "none"
    /\ UNCHANGED <<poolcfg, progress, shutdown, workq, nfut, fstate, fout,
                   ftag, fcb, queue, wk, th, hist>>
    /\ UNCHANGED <<kwargs, paths_items, arguments, frames, sent, fvars>>

\* line 1121: the filter rejects the response, the loop asks for the next
FirstNoMatch ==
    /\ mpc = "first" /\ gen.pc = "body"
    /\ filter(out[Len(out)]) = "no"
    /\ AsCompletedResume
    /\ UNCHANGED mvars

\* _tag_results goes on after a future it skipped
FirstSkipped ==
    /\ mpc = "first" /\ gen.pc = "resume"
    /\ AsCompletedResume
    /\ UNCHANGED mvars

\* line 1123: the loop is over: return None
FirstNone ==
    /\ mpc = "first" /\ gen.pc = "ended"
    /\ RetrievalOver
    /\ result' = [kind |-> "none"]
    /\ mpc' = "exit"
    /\ UNCHANGED <<kwargs, paths_items, arguments, frames, sent, fvars>>

\* pool.as_completed() raised: the exception leaves _get_results
FirstRaised ==
    /\ mpc = "first" /\ gen.pc = "raised"
    /\ RetrievalOver
    /\ result' = [kind |-> "raised", exc |-> raised]
    /\ mpc' = "exit"
    /\ UNCHANGED <<kwargs, paths_items, arguments, frames, sent, fvars>>


\* ========================================================= ScopedSession
\* A URL is a string, modelled as the sequence of its characters.
startswith(str, prefix) ==
    /\ Len(prefix) <= Len(str)
    /\ SubSeq(str, 1, Len(prefix)) = prefix

\* str.find(c) from position `from` on (positions from 1; 0: not found)
find(str, c, from) ==
    IF \E i \in from..Len(str) : str[i] = c
    THEN CHOOSE i \in from..Len(str) :
            str[i] = c /\ \A j \in from..(i - 1) : str[j] # c
    ELSE 0

\* str.rfind(c)
rfind(str, c) ==
    IF \E i \in 1..Len(str) : str[i] = c
    THEN CHOOSE i \in 1..Len(str) :
            str[i] = c /\ \A j \in (i + 1)..Len(str) : str[j] # c
    ELSE 0

Letters == {"a", "b", "h", "o", "p", "s", "t", "T"}
Digits == {"0", "8", "9"}

\* str.lower()
lower(str) == [i \in 1..Len(str) |-> IF str[i] = "T" THEN "t" ELSE str[i]]

\* int(port)
RECURSIVE int(_)
int(str) ==
    IF str = <<>> THEN 0
    ELSE 10 * int(SubSeq(str, 1, Len(str) - 1))
         + (CASE str[Len(str)] = "0" -> 0
              [] str[Len(str)] = "8" -> 8
              [] str[Len(str)] = "9" -> 9)

HTTPS == <<"h", "t", "t", "p", "s", ":", "/", "/">>
HTTP == <<"h", "t", "t", "p", ":", "/", "/">>

\* urllib.parse.urlparse(url), for URLs without "?", "#" and ";": the
\* scheme (lowercased) when the text before the first ":" is made of scheme
\* characters and begins with a letter; the netloc after "//" up to the
\* next "/"; the path
urlparse(url) ==
    LET i == find(url, ":", 1)
        has_scheme == /\ i > 1
                      /\ url[1] \in Letters
                      /\ \A j \in 1..(i - 1) :
                            url[j] \in Letters \cup Digits \cup {"."}
        scheme == IF has_scheme THEN lower(SubSeq(url, 1, i - 1)) ELSE <<>>
        rest == IF has_scheme THEN SubSeq(url, i + 1, Len(url)) ELSE url
        has_netloc == startswith(rest, <<"/", "/">>)
        delim == IF find(rest, "/", 3) = 0 THEN Len(rest) + 1
                 ELSE find(rest, "/", 3)
    IN [scheme |-> scheme,
        netloc |-> IF has_netloc THEN SubSeq(rest, 3, delim - 1) ELSE <<>>,
        path |-> IF has_netloc THEN SubSeq(rest, delim, Len(rest)) ELSE rest]

\* the netloc without its userinfo: netloc.rpartition("@")[2]
hostinfo(netloc) == SubSeq(netloc, rfind(netloc, "@") + 1, Len(netloc))

\* ParseResult.hostname: the host, lowercased; None when it is empty
hostname(parsed) ==
    LET hi == hostinfo(parsed.netloc)
        c == find(hi, ":", 1)
        h == IF c = 0 THEN hi ELSE SubSeq(hi, 1, c - 1)
    IN IF h = <<>> THEN [none |-> TRUE] ELSE [name |-> lower(h)]

\* ParseResult.port: None when nothing follows the host, the number after
\* its ":", ValueError when that is no number
port(parsed) ==
    LET hi == hostinfo(parsed.netloc)
        c == find(hi, ":", 1)
        p == SubSeq(hi, c + 1, Len(hi))
    IN IF c = 0 \/ p = <<>> THEN [none |-> TRUE]
       ELSE IF \A j \in 1..Len(p) : p[j] \in Digits
       THEN [number |-> int(p)]
       ELSE [ValueError |-> p]


\* ScopedSession.__init__: one trailing "/" of the base URL is dropped
ScopedSession(url) ==
    IF url # <<>> /\ url[Len(url)] = "/"
    THEN SubSeq(url, 1, Len(url) - 1)
    ELSE url

get_absolute_url_joined(base, url) ==
    LET b == urlparse(base)
    IN IF startswith(url, HTTPS) \/ startswith(url, HTTP) THEN url
       ELSE IF startswith(url, <<"/">>)
            THEN SubSeq(base, 1, Len(base) - Len(b.path)) \o url
            ELSE base \o url

get_absolute_url(base, url) ==
    IF startswith(url, HTTPS) \/ startswith(url, HTTP) THEN url
    ELSE base \o url

is_in_scope_any_port(base, url) ==
    LET bu == urlparse(base)
        tu == urlparse(url)
    IN [bool |-> /\ hostname(bu) = hostname(tu)
                 /\ bu.scheme = tu.scheme
                 /\ startswith(tu.path, bu.path)]

\* a bool, or the ValueError of a port that is no number; `and` evaluates
\* its operands from left to right and stops at the first false one
is_in_scope(base, url) ==
    LET bu == urlparse(base)
        tu == urlparse(url)
    IN IF hostname(bu) # hostname(tu) THEN [bool |-> FALSE]
       ELSE IF "ValueError" \in DOMAIN port(bu) THEN port(bu)
       ELSE IF "ValueError" \in DOMAIN port(tu) THEN port(tu)
       ELSE [bool |-> /\ port(bu) = port(tu)
                      /\ bu.scheme = tu.scheme
                      /\ startswith(tu.path, bu.path)]

\* ---- the URLs the session is given
NoPart == <<>>
SchemeNames == {<<"h", "t", "t", "p", "s">>, <<"h", "t", "t", "p">>}
HostNames == {<<"t">>, <<"T">>, <<"o">>}
UserNames == {NoPart, <<"t">>}
PortTexts == {NoPart, <<"8">>, <<"0", "8">>, <<"9">>}
PathTexts == {<<>>, <<"/", "a">>, <<"/", "a", "b">>, <<"/", "a", "/", "b">>,
              <<"/", "a", "/", ".", ".", "/", "b">>, <<"/", "b">>}

\* an absolute URL, by its parts
AbsoluteUrls ==
    [scheme : SchemeNames, user : UserNames, host : HostNames,
     port : PortTexts, path : PathTexts]

\* the text of an absolute URL
Text(u) ==
    u.scheme \o <<":", "/", "/">>
    \o (IF u.user = NoPart THEN <<>> ELSE u.user \o <<"@">>)
    \o u.host
    \o (IF u.port = NoPart THEN <<>> ELSE <<":">> \o u.port)
    \o u.path

\* what a caller gives for a request on the base URL
RelativeTexts ==
    {<<>>, <<"/", "b">>, <<"/", ".", ".", "/", "b">>, <<"b">>,
     <<"@", "o", "/", "a">>, <<".", "o", "/", "a">>, <<":", "9", "/", "a">>,
     <<"/", "/", "o", "/", "a">>}

\* the base URLs of the sessions: on host "t", with a final "/" or not
BaseUrls ==
    {u \in AbsoluteUrls :
        /\ u.host = <<"t">> /\ u.user = NoPart
        /\ u.port \in {NoPart, <<"8">>}
        /\ u.path \in {<<>>, <<"/", "a">>}}

\* what the caller gives: the text of an absolute URL, or a text to be
\* put after the base URL
GivenUrls == {Text(u) : u \in AbsoluteUrls} \cup RelativeTexts

\* a ScopedSession and the URL of the call that is about to be made on it
InitScoped ==
    /\ PoolInit(1)
    /\ on_error = "raise" /\ workers = 1
    /\ DOMAIN th = {"main"}
    /\ description = FALSE
    /\ NoMultiRequest
    /\ \E b \in BaseUrls, slash \in {<<>>, <<"/">>} :
          base_url = ScopedSession(Text(b) \o slash)
    /\ \E url \in GivenUrls :
          request = [call |-> "none", given |-> url, url |-> url,
                     end |-> "none"]
    /\ NewSession
    /\ NoHeap

\* ScopedSession.prepare_request(request): the request goes on to
\* Session.prepare_request, or the call raises
prepare_request ==
    LET absolute == get_absolute_url(base_url, request.given)
        scope == is_in_scope(base_url, absolute)
    IN /\ request.call = "none"
       /\ request' = [request EXCEPT
                         !.call = "prepare_request",
                         !.url = absolute,
                         !.end = IF "ValueError" \in DOMAIN scope
                                 THEN "ValueError"
                                 ELSE IF ~scope.bool
                                 THEN "HTTPOutOfScopeError"
                                 ELSE "Session.prepare_request"]
       /\ UNCHANGED <<base_url, pvars, mvars, bvars, hvars>>

\* session.is_in_scope(url)
IsInScope ==
    LET scope == is_in_scope(base_url, request.given)
    IN /\ request.call = "none"
       /\ request' = [request EXCEPT
                         !.call = "is_in_scope",
                         !.end = IF "ValueError" \in DOMAIN scope
                                 THEN "ValueError"
                                 ELSE IF scope.bool THEN "True"
                                 ELSE "False"]
       /\ UNCHANGED <<base_url, pvars, mvars, bvars, hvars>>

\* ======================================================= Session.burp
MaxCalls == 4

\* a configuration that has the attribute Session.burp reads
config_with_burp_proxy ==
    [burp_proxy |-> "http://localhost:8080",
     MESSAGE_FORMATTER |-> "OtherOldschoolMessageFormatter"]

\* tenlib.config.config: the attributes of class Configuration
config ==
    [BURP_PROXY |-> "http://localhost:8080",
     MESSAGE_FORMATTER |-> "OtherOldschoolMessageFormatter",
     OPEN_SCRIPT_COMMAND |-> "None",
     LOG_LINE_WIDTH |-> "200"]

\* config.<name>: the value of the attribute, AttributeError without it
getattr(object, name) ==
    IF name \in DOMAIN object
    THEN [str |-> object[name]]
    ELSE [AttributeError |-> name]

\* what a caller assigns to session.proxies
ProxyValues ==
    {None, EmptyDict, [dict |-> <<"http", "fake_proxy">>],
     [str |-> "fake_proxy"], [int |-> "8080"]}

\* the proxies setter: None and a dict are kept, a str is the proxy of every
\* protocol, anything else is a TypeError
proxies_setter(proxy) ==
    IF proxy = None THEN None
    ELSE IF "dict" \in DOMAIN proxy THEN proxy
    ELSE IF "str" \in DOMAIN proxy THEN [dict |-> <<"all", proxy.str>>]
    ELSE [TypeError |-> "Invalid proxy type"]

\* a Session whose caller has set proxies and verify
InitBurp ==
    /\ PoolInit(1)
    /\ on_error = "raise" /\ workers = 1
    /\ DOMAIN th = {"main"}
    /\ description = FALSE
    /\ NoMultiRequest
    /\ NoScopedSession
    /\ \E p \in ProxyValues :
          /\ "TypeError" \notin DOMAIN proxies_setter(p)
          /\ proxies = proxies_setter(p)
    /\ verify \in BOOLEAN
    /\ burp_saved_state = EmptyDict
    /\ call = NoCall
    /\ NoHeap

Called(op, end) == [n |-> call.n + 1, op |-> op, end |-> end]

\* session.proxies = proxy
SetProxies(proxy) ==
    /\ call.n < MaxCalls
    /\ LET p == proxies_setter(proxy) IN
       IF "TypeError" \in DOMAIN p
       THEN /\ call' = Called("proxies", "TypeError")
            /\ UNCHANGED proxies
       ELSE /\ call' = Called("proxies", "set")
            /\ proxies' = p
    /\ UNCHANGED <<verify, burp_saved_state, pvars, mvars, svars, hvars>>

\* session.verify = value
SetVerify(value) ==
    /\ call.n < MaxCalls
    /\ verify' = value
    /\ call' = Called("verify", "set")
    /\ UNCHANGED <<proxies, burp_saved_state, pvars, mvars, svars, hvars>>

\* Session.burp(): lines 326-330; the saved state is assigned before
\* config.burp_proxy is read
burp(cfg) ==
    IF burp_saved_state # EmptyDict
    THEN /\ call' = Called("burp", "return")
         /\ UNCHANGED <<proxies, verify, burp_saved_state>>
    ELSE /\ burp_saved_state' = [proxies |-> proxies, verify |-> verify]
         /\ LET burp_proxy == getattr(cfg, "burp_proxy") IN
            IF "AttributeError" \in DOMAIN burp_proxy
            THEN /\ call' = Called("burp", "AttributeError")
                 /\ UNCHANGED <<proxies, verify>>
            ELSE /\ proxies' = proxies_setter(burp_proxy)
                 /\ verify' = FALSE
                 /\ call' = Called("burp", "return")

Burp ==
    /\ call.n < MaxCalls
    /\ burp(config)
    /\ UNCHANGED <<pvars, mvars, svars, hvars>>

\* Session.unburp(): lines 334-338
Unburp ==
    /\ call.n < MaxCalls
    /\ call' = Called("unburp", "return")
    /\ IF burp_saved_state = EmptyDict
       THEN UNCHANGED <<proxies, verify, burp_saved_state>>
       ELSE /\ proxies' = proxies_setter(burp_saved_state.proxies)
            /\ verify' = burp_saved_state.verify
            /\ burp_saved_state' = EmptyDict
    /\ UNCHANGED <<pvars, mvars, svars, hvars>>


\* ------------------------------------------------------------------ Spec
\* the pool used directly by its caller (no MultiRequest call)
Next ==
    \/ Enter /\ UNCHANGED mvars /\ UNCHANGED svars /\ UNCHANGED bvars /\ UNCHANGED hvars
    \/ \E t \in DOMAIN th : SubmitCall(t) /\ UNCHANGED mvars /\ UNCHANGED svars /\ UNCHANGED bvars /\ UNCHANGED hvars
    \/ \E t \in DOMAIN th : SubmitRejected(t) /\ UNCHANGED mvars /\ UNCHANGED svars /\ UNCHANGED bvars /\ UNCHANGED hvars
    \/ \E t \in DOMAIN th : SubmitTag(t) /\ UNCHANGED mvars /\ UNCHANGED svars /\ UNCHANGED bvars /\ UNCHANGED hvars
    \/ \E t \in DOMAIN th : SubmitAppend(t) /\ UNCHANGED mvars /\ UNCHANGED svars /\ UNCHANGED bvars /\ UNCHANGED hvars
    \/ \E w \in 1..MaxWorkers : WorkerGet(w) /\ UNCHANGED mvars /\ UNCHANGED svars /\ UNCHANGED bvars /\ UNCHANGED hvars
    \/ \E w \in 1..MaxWorkers : WorkerStart(w) /\ UNCHANGED mvars /\ UNCHANGED svars /\ UNCHANGED bvars /\ UNCHANGED hvars
    \/ \E w \in 1..MaxWorkers : WorkerFinish(w) /\ UNCHANGED mvars /\ UNCHANGED svars /\ UNCHANGED bvars /\ UNCHANGED hvars
    \/ \E h \in Handles : Cancel(h) /\ UNCHANGED mvars /\ UNCHANGED svars /\ UNCHANGED bvars /\ UNCHANGED hvars
    \/ CloseProgress /\ UNCHANGED mvars /\ UNCHANGED svars /\ UNCHANGED bvars /\ UNCHANGED hvars
    \/ CloseShutdown /\ UNCHANGED mvars /\ UNCHANGED svars /\ UNCHANGED bvars /\ UNCHANGED hvars
    \/ CloseDrain /\ UNCHANGED mvars /\ UNCHANGED svars /\ UNCHANGED bvars /\ UNCHANGED hvars
    \/ InOrderCall /\ UNCHANGED mvars /\ UNCHANGED svars /\ UNCHANGED bvars /\ UNCHANGED hvars
    \/ InOrderNext /\ UNCHANGED mvars /\ UNCHANGED svars /\ UNCHANGED bvars /\ UNCHANGED hvars
    \/ AsCompletedCall /\ UNCHANGED mvars /\ UNCHANGED svars /\ UNCHANGED bvars /\ UNCHANGED hvars
    \/ AsCompletedTop /\ UNCHANGED mvars /\ UNCHANGED svars /\ UNCHANGED bvars /\ UNCHANGED hvars
    \/ AsCompletedYield /\ UNCHANGED mvars /\ UNCHANGED svars /\ UNCHANGED bvars /\ UNCHANGED hvars
    \/ AsCompletedWait /\ UNCHANGED mvars /\ UNCHANGED svars /\ UNCHANGED bvars /\ UNCHANGED hvars
    \/ AsCompletedTimeout /\ UNCHANGED mvars /\ UNCHANGED svars /\ UNCHANGED bvars /\ UNCHANGED hvars
    \/ AsCompletedResume /\ UNCHANGED mvars /\ UNCHANGED svars /\ UNCHANGED bvars /\ UNCHANGED hvars
    \/ RetrievalOver /\ UNCHANGED mvars /\ UNCHANGED svars /\ UNCHANGED bvars /\ UNCHANGED hvars

Spec == Init /\ [][Next]_vars

SpecThreads == InitThreads /\ [][Next]_vars

\* a MultiRequest call and the workers of its pool
NextMulti ==
    \/ RunRequests /\ UNCHANGED fvars /\ UNCHANGED svars /\ UNCHANGED bvars /\ UNCHANGED hvars
    \/ MultiEnter /\ UNCHANGED fvars /\ UNCHANGED svars /\ UNCHANGED bvars /\ UNCHANGED hvars
    \/ IterSetPath /\ UNCHANGED fvars /\ UNCHANGED svars /\ UNCHANGED bvars /\ UNCHANGED hvars
    \/ IterReturn /\ UNCHANGED fvars /\ UNCHANGED svars /\ UNCHANGED bvars /\ UNCHANGED hvars
    \/ IterSubmit /\ UNCHANGED fvars /\ UNCHANGED svars /\ UNCHANGED bvars /\ UNCHANGED hvars
    \/ SubmitTag("main") /\ UNCHANGED mvars /\ UNCHANGED svars /\ UNCHANGED bvars /\ UNCHANGED hvars
    \/ SubmitAppend("main") /\ UNCHANGED mvars /\ UNCHANGED svars /\ UNCHANGED bvars /\ UNCHANGED hvars
    \/ \E w \in 1..MaxWorkers : WorkerGet(w) /\ UNCHANGED mvars /\ UNCHANGED svars /\ UNCHANGED bvars /\ UNCHANGED hvars
    \/ \E w \in 1..MaxWorkers : WorkerStart(w) /\ UNCHANGED mvars /\ UNCHANGED svars /\ UNCHANGED bvars /\ UNCHANGED hvars
    \/ \E w \in 1..MaxWorkers : WorkerFinish(w) /\ UNCHANGED mvars /\ UNCHANGED svars /\ UNCHANGED bvars /\ UNCHANGED hvars
    \/ MultiGetResults /\ UNCHANGED fvars /\ UNCHANGED svars /\ UNCHANGED bvars /\ UNCHANGED hvars
    \/ InOrderNext /\ UNCHANGED mvars /\ UNCHANGED svars /\ UNCHANGED bvars /\ UNCHANGED hvars
    \/ MultiResult /\ UNCHANGED fvars /\ UNCHANGED svars /\ UNCHANGED bvars /\ UNCHANGED hvars
    \/ MultiExit /\ UNCHANGED fvars /\ UNCHANGED svars /\ UNCHANGED bvars /\ UNCHANGED hvars
    \/ CloseShutdown /\ UNCHANGED mvars /\ UNCHANGED svars /\ UNCHANGED bvars /\ UNCHANGED hvars
    \/ CloseDrain /\ UNCHANGED mvars /\ UNCHANGED svars /\ UNCHANGED bvars /\ UNCHANGED hvars
    \/ MultiDone /\ UNCHANGED fvars /\ UNCHANGED svars /\ UNCHANGED bvars /\ UNCHANGED hvars

SpecMulti == InitMulti /\ [][NextMulti]_vars

\* a MultiRequestFirst call and the workers of its pool
NextFirst ==
    \/ RunRequests /\ UNCHANGED fvars /\ UNCHANGED svars /\ UNCHANGED bvars /\ UNCHANGED hvars
    \/ MultiEnter /\ UNCHANGED fvars /\ UNCHANGED svars /\ UNCHANGED bvars /\ UNCHANGED hvars
    \/ IterSetPath /\ UNCHANGED fvars /\ UNCHANGED svars /\ UNCHANGED bvars /\ UNCHANGED hvars
    \/ IterReturn /\ UNCHANGED fvars /\ UNCHANGED svars /\ UNCHANGED bvars /\ UNCHANGED hvars
    \/ IterSubmit /\ UNCHANGED fvars /\ UNCHANGED svars /\ UNCHANGED bvars /\ UNCHANGED hvars
    \/ SubmitTag("main") /\ UNCHANGED mvars /\ UNCHANGED svars /\ UNCHANGED bvars /\ UNCHANGED hvars
    \/ SubmitAppend("main") /\ UNCHANGED mvars /\ UNCHANGED svars /\ UNCHANGED bvars /\ UNCHANGED hvars
    \/ \E w \in 1..MaxWorkers : WorkerGet(w) /\ UNCHANGED mvars /\ UNCHANGED svars /\ UNCHANGED bvars /\ UNCHANGED hvars
    \/ \E w \in 1..MaxWorkers : WorkerStart(w) /\ UNCHANGED mvars /\ UNCHANGED svars /\ UNCHANGED bvars /\ UNCHANGED hvars
    \/ \E w \in 1..MaxWorkers : FirstWorkerFinish(w) /\ UNCHANGED svars /\ UNCHANGED bvars /\ UNCHANGED hvars
    \/ FirstGetResults /\ UNCHANGED svars /\ UNCHANGED bvars /\ UNCHANGED hvars
    \/ AsCompletedTop /\ UNCHANGED mvars /\ UNCHANGED svars /\ UNCHANGED bvars /\ UNCHANGED hvars
    \/ AsCompletedYield /\ UNCHANGED mvars /\ UNCHANGED svars /\ UNCHANGED bvars /\ UNCHANGED hvars
    \/ AsCompletedWait /\ UNCHANGED mvars /\ UNCHANGED svars /\ UNCHANGED bvars /\ UNCHANGED hvars
    \/ AsCompletedTimeout /\ UNCHANGED mvars /\ UNCHANGED svars /\ UNCHANGED bvars /\ UNCHANGED hvars
    \/ FirstMatch /\ UNCHANGED svars /\ UNCHANGED bvars /\ UNCHANGED hvars
    \/ FirstFilterRaises /\ UNCHANGED svars /\ UNCHANGED bvars /\ UNCHANGED hvars
    \/ FirstNoMatch /\ UNCHANGED svars /\ UNCHANGED bvars /\ UNCHANGED hvars
    \/ FirstSkipped /\ UNCHANGED svars /\ UNCHANGED bvars /\ UNCHANGED hvars
    \/ FirstNone /\ UNCHANGED svars /\ UNCHANGED bvars /\ UNCHANGED hvars
    \/ FirstRaised /\ UNCHANGED svars /\ UNCHANGED bvars /\ UNCHANGED hvars
    \/ MultiExit /\ UNCHANGED fvars /\ UNCHANGED svars /\ UNCHANGED bvars /\ UNCHANGED hvars
    \/ CloseShutdown /\ UNCHANGED mvars /\ UNCHANGED svars /\ UNCHANGED bvars /\ UNCHANGED hvars
    \/ CloseDrain /\ UNCHANGED mvars /\ UNCHANGED svars /\ UNCHANGED bvars /\ UNCHANGED hvars
    \/ MultiDone /\ UNCHANGED fvars /\ UNCHANGED svars /\ UNCHANGED bvars /\ UNCHANGED hvars

SpecFirst == InitFirst /\ [][NextFirst]_vars

\* the pool with a progress: the callbacks of a future run after its
\* state has changed
NextProgress ==
    \/ Enter /\ UNCHANGED mvars /\ UNCHANGED svars /\ UNCHANGED bvars /\ UNCHANGED hvars
    \/ SubmitCall("main") /\ UNCHANGED mvars /\ UNCHANGED svars /\ UNCHANGED bvars /\ UNCHANGED hvars
    \/ SubmitRejected("main") /\ UNCHANGED mvars /\ UNCHANGED svars /\ UNCHANGED bvars /\ UNCHANGED hvars
    \/ SubmitTag("main") /\ UNCHANGED mvars /\ UNCHANGED svars /\ UNCHANGED bvars /\ UNCHANGED hvars
    \/ SubmitAppend("main") /\ UNCHANGED mvars /\ UNCHANGED svars /\ UNCHANGED bvars /\ UNCHANGED hvars
    \/ SubmitProgress("main") /\ UNCHANGED mvars /\ UNCHANGED svars /\ UNCHANGED bvars /\ UNCHANGED hvars
    \/ SubmitCallback("main") /\ UNCHANGED mvars /\ UNCHANGED svars /\ UNCHANGED bvars /\ UNCHANGED hvars
    \/ \E w \in 1..MaxWorkers : WorkerGet(w) /\ UNCHANGED mvars /\ UNCHANGED svars /\ UNCHANGED bvars /\ UNCHANGED hvars
    \/ \E w \in 1..MaxWorkers : WorkerStart(w) /\ UNCHANGED mvars /\ UNCHANGED svars /\ UNCHANGED bvars /\ UNCHANGED hvars
    \/ \E w \in 1..MaxWorkers : WorkerSetResult(w) /\ UNCHANGED mvars /\ UNCHANGED svars /\ UNCHANGED bvars /\ UNCHANGED hvars
    \/ \E w \in 1..MaxWorkers : WorkerCallbacks(w) /\ UNCHANGED mvars /\ UNCHANGED svars /\ UNCHANGED bvars /\ UNCHANGED hvars
    \/ \E h \in Handles : Cancel(h) /\ UNCHANGED mvars /\ UNCHANGED svars /\ UNCHANGED bvars /\ UNCHANGED hvars
    \/ CloseProgress /\ UNCHANGED mvars /\ UNCHANGED svars /\ UNCHANGED bvars /\ UNCHANGED hvars
    \/ CloseShutdown /\ UNCHANGED mvars /\ UNCHANGED svars /\ UNCHANGED bvars /\ UNCHANGED hvars
    \/ CloseDrain /\ UNCHANGED mvars /\ UNCHANGED svars /\ UNCHANGED bvars /\ UNCHANGED hvars
    \/ AsCompletedCall /\ UNCHANGED mvars /\ UNCHANGED svars /\ UNCHANGED bvars /\ UNCHANGED hvars
    \/ AsCompletedTop /\ UNCHANGED mvars /\ UNCHANGED svars /\ UNCHANGED bvars /\ UNCHANGED hvars
    \/ AsCompletedYield /\ UNCHANGED mvars /\ UNCHANGED svars /\ UNCHANGED bvars /\ UNCHANGED hvars
    \/ AsCompletedWait /\ UNCHANGED mvars /\ UNCHANGED svars /\ UNCHANGED bvars /\ UNCHANGED hvars
    \/ AsCompletedTimeout /\ UNCHANGED mvars /\ UNCHANGED svars /\ UNCHANGED bvars /\ UNCHANGED hvars
    \/ AsCompletedResume /\ UNCHANGED mvars /\ UNCHANGED svars /\ UNCHANGED bvars /\ UNCHANGED hvars
    \/ RetrievalOver /\ UNCHANGED mvars /\ UNCHANGED svars /\ UNCHANGED bvars /\ UNCHANGED hvars

SpecProgress == InitProgress /\ [][NextProgress]_vars

\* calls on a ScopedSession
NextScoped ==
    \/ prepare_request
    \/ IsInScope

SpecScoped == InitScoped /\ [][NextScoped]_vars

\* calls on the settings of a Session
NextBurp ==
    \/ \E p \in ProxyValues : SetProxies(p)
    \/ \E v \in BOOLEAN : SetVerify(v)
    \/ Burp
    \/ Unburp

SpecBurp == InitBurp /\ [][NextBurp]_vars

\* ---- an open pool whose consumer goes through each retrieval to its end
\* the steps of the worker threads
LiveWorker ==
    \E w \in 1..MaxWorkers :
       (WorkerGet(w) \/ WorkerStart(w) \/ WorkerFinish(w)) /\ UNCHANGED mvars /\ UNCHANGED svars /\ UNCHANGED bvars /\ UNCHANGED hvars

\* the steps of a submit that has begun
LiveSubmit ==
    (SubmitTag("main") \/ SubmitAppend("main")) /\ UNCHANGED mvars /\ UNCHANGED svars /\ UNCHANGED bvars /\ UNCHANGED hvars

\* the steps of in_order() and of the as_completed generator, the consumer
\* asking for the next result included
LiveRetrieval ==
    (InOrderNext \/ AsCompletedTop \/ AsCompletedYield \/ AsCompletedWait
     \/ AsCompletedResume \/ RetrievalOver) /\ UNCHANGED mvars /\ UNCHANGED svars /\ UNCHANGED bvars /\ UNCHANGED hvars

NextLive ==
    \/ Enter /\ UNCHANGED mvars /\ UNCHANGED svars /\ UNCHANGED bvars /\ UNCHANGED hvars
    \/ SubmitCall("main") /\ UNCHANGED mvars /\ UNCHANGED svars /\ UNCHANGED bvars /\ UNCHANGED hvars
    \/ LiveSubmit
    \/ LiveWorker
    \/ gen.pc = "none" /\ InOrderCall /\ UNCHANGED mvars /\ UNCHANGED svars /\ UNCHANGED bvars /\ UNCHANGED hvars
    \/ gen.pc = "none" /\ AsCompletedCall /\ UNCHANGED mvars /\ UNCHANGED svars /\ UNCHANGED bvars /\ UNCHANGED hvars
    \/ AsCompletedTimeout /\ UNCHANGED mvars /\ UNCHANGED svars /\ UNCHANGED bvars /\ UNCHANGED hvars
    \/ LiveRetrieval

\* no Handle is cancelled and the pool is not closed; every thread that can
\* take a step eventually takes one, but nothing obliges the 0.3 s of
\* as_completed to run out
SpecLive ==
    /\ Init /\ [][NextLive]_vars
    /\ WF_vars(LiveWorker) /\ WF_vars(LiveSubmit) /\ WF_vars(LiveRetrieval)

\* ---- the discovery of the Multis of nested arguments, and one or two
\* substitutions at the paths found
\* a Multi of scalars, a Multi that holds a Multi, a Multi that holds a dict
\* with a Multi
PlainMulti == Multi(<<Scalar("a"), Scalar("b")>>)
MultiOfMulti == Multi(<<Scalar("a"), PlainMulti>>)
MultiOfDict == Multi(<<Dict(<< <<"k", PlainMulti>> >>)>>)
Leaves == {Scalar("a"), PlainMulti, MultiOfMulti, MultiOfDict}

\* data=: a leaf, or a list, a tuple or a dict of leaves
NestedData ==
    Leaves
    \cup {List(<<x, y>>) : x \in Leaves, y \in Leaves}
    \cup {Tuple(<<x>>) : x \in Leaves}
    \cup {Dict(<< <<"k", x>>, <<"j", y>> >>) : x \in Leaves, y \in Leaves}

\* params=: a scalar, or a leaf two or three containers down
NestedParams ==
    {Scalar("a")}
    \cup {Dict(<< <<"id", List(<<x>>)>> >>) : x \in Leaves}
    \cup {List(<<Tuple(<<Dict(<< <<"id", PlainMulti>> >>), Scalar("b")>>)>>)}

NestedOptions ==
    {Dict(<< <<"url", Scalar("a")>>, <<"data", d>>, <<"params", p>> >>) :
        d \in NestedData, p \in NestedParams}

InitDiscover ==
    /\ PoolInit(MaxHandles)
    /\ on_error = "raise" /\ workers = 1
    /\ DOMAIN th = {"main"}
    /\ description = FALSE
    /\ NoScopedSession
    /\ NewSession
    /\ NoHeap
    /\ kwargs \in NestedOptions
    /\ paths_items = <<>>
    /\ arguments = <<>>
    /\ frames = <<>>
    /\ mpc = "start"
    /\ sent = <<>>
    /\ result = <<>>
    /\ verdict = <<>>
    /\ comp = <<>>

\* line 1092, self._replace_at_path(arguments, path, item), for the k-th
\* item of the i-th Multi found; frames keeps the substitutions made
ReplaceAtPath ==
    /\ mpc = "with"
    /\ Len(frames) < 2
    /\ \E i \in 1..Len(paths_items) :
          \E k \in 1..Len(paths_items[i][2]) :
             /\ arguments' = replace_at_path(arguments, paths_items[i][1],
                                             paths_items[i][2][k])
             /\ frames' = Append(frames, [d |-> i, i |-> k, set_items |-> <<>>])
    /\ UNCHANGED <<pvars, kwargs, paths_items, mpc, sent, result>>

NextDiscover ==
    \/ RunRequests /\ UNCHANGED fvars /\ UNCHANGED svars /\ UNCHANGED bvars /\ UNCHANGED hvars
    \/ ReplaceAtPath /\ UNCHANGED fvars /\ UNCHANGED svars /\ UNCHANGED bvars /\ UNCHANGED hvars

SpecDiscover == InitDiscover /\ [][NextDiscover]_vars

\* the steps of __exit__ once it has begun
LiveClose ==
    (CloseShutdown \/ CloseDrain) /\ UNCHANGED mvars /\ UNCHANGED svars /\ UNCHANGED bvars /\ UNCHANGED hvars

\* the same consumer on a pool that it may close, and whose Handles it may
\* cancel
NextLiveClose ==
    \/ NextLive
    \/ SubmitRejected("main") /\ UNCHANGED mvars /\ UNCHANGED svars /\ UNCHANGED bvars /\ UNCHANGED hvars
    \/ \E h \in Handles : Cancel(h) /\ UNCHANGED mvars /\ UNCHANGED svars /\ UNCHANGED bvars /\ UNCHANGED hvars
    \/ CloseProgress /\ UNCHANGED mvars /\ UNCHANGED svars /\ UNCHANGED bvars /\ UNCHANGED hvars
    \/ LiveClose

SpecLiveClose ==
    /\ Init /\ [][NextLiveClose]_vars
    /\ WF_vars(LiveWorker) /\ WF_vars(LiveSubmit) /\ WF_vars(LiveRetrieval)
    /\ WF_vars(LiveClose)

TypeOK ==
    /\ nfut \in 0..Len(fstate)
    /\ SeqToSet(queue) \subseteq 1..nfut
    /\ SeqToSet(workq) \subseteq 1..nfut


\* ================================================================ claims
\* the futures behind what the retrieval has delivered, in order
OutHandles == [k \in 1..Len(out) |-> out[k].h]

NoDup(q) == \A i, j \in 1..Len(q) : i # j => q[i] # q[j]

\* the queue as the retrieval that is over saw it when it stopped
QueueSeen == SubSeq(queue, 1, gen.n)

Failed(S) == {h \in S : fout[h] = "exception"}

\* C1: the list in_order() returns is in the order of submission (a result
\* comes before another exactly when its submit had returned before the
\* other's began), whatever the order of completion and for futures
\* submitted by the body of an as_completed loop; when no future failed
\* the list has exactly one entry per submitted future.
C1_InOrderIsSubmissionOrder ==
    gen.pc = "returned" =>
        /\ \A i, j \in 1..Len(out) :
              i < j => out[i].h \in hist.before[out[j].h]
        /\ (\A h \in hist.returned : fout[h] = "result") =>
              /\ Len(out) = Cardinality(hist.returned)
              /\ SeqToSet(OutHandles) = hist.returned

\* in_order() has returned three results, one of them for a future that the
\* body of an as_completed loop submitted, and a later future had finished
\* before an earlier one
C1_Witness ==
    /\ gen.pc = "returned"
    /\ Len(out) = 3
    /\ hist.ooo
    /\ hist.inloop # {}
    /\ hist.inloop \subseteq SeqToSet(OutHandles)

\* C2: the as_completed generator is not a snapshot: when it ends, every
\* future in the queue at that moment, those appended during the iteration
\* by the loop body or by another thread included, is done and has been
\* yielded exactly once; no future is yielded twice, and unless failures are
\* skipped each yielded future gives the consumer exactly one result.
C2_AsCompletedSeesLateSubmissions ==
    /\ NoDup(gen.ys)
    /\ gen.pc = "ended" =>
          /\ Len(gen.ys) = gen.n
          /\ \A i \in 1..gen.n :
                /\ done(queue[i])
                /\ \E k \in 1..Len(gen.ys) : gen.ys[k] = queue[i]
          /\ (on_error # "skip" \/ Failed(SeqToSet(gen.ys)) = {}) =>
                OutHandles = gen.ys

\* the iteration has ended after yielding two futures, one of which another
\* thread appended to the queue while the iteration was running
C2_Witness ==
    /\ gen.pc = "ended"
    /\ Len(gen.ys) = 2
    /\ (gen.late \ hist.inloop) \cap SeqToSet(gen.ys) # {}

\* C3: a submit made after close() fails and leaves the pool unchanged: once
\* _shutdown is set no future is created, and the refused call changes
\* neither the queue, the work queue, any future, the progress nor the
\* transport calls made, and returns without appending anything.
C3_SubmitAfterCloseRejected ==
    [][ /\ shutdown => nfut' = nfut
        /\ \A t \in DOMAIN th :
              /\ (th[t].pc = "idle" /\ th'[t].pc = "rejected") =>
                    /\ shutdown
                    /\ queue' = queue /\ workq' = workq /\ fstate' = fstate
                    /\ progress' = progress
                    /\ hist'.invoked = hist.invoked
              /\ (th[t].pc = "rejected" /\ th'[t] # th[t]) =>
                    /\ th'[t].pc = "idle"
                    /\ queue' = queue /\ workq' = workq /\ fstate' = fstate
      ]_vars

\* a submit has just been refused by a closed pool that holds a future
C3_Witness ==
    /\ \E t \in DOMAIN th : th[t].pc = "rejected"
    /\ hist.closed
    /\ queue # <<>>

\* C4: close() cancels every future that has not started execution, and
\* its transport call is never made: once the pool is closed, each of its
\* futures is running, finished or cancelled, and no future starts running;
\* a running future is never cancelled: it stays running until it finishes.
C4_CloseCancelsNotStarted ==
    /\ [](hist.closed =>
            \A h \in 1..nfut :
               fstate[h] \in {"RUNNING", "FINISHED", "CANCELLED",
                              "CANCELLED_AND_NOTIFIED"})
    /\ [][hist.closed =>
            \A h \in Handles :
               fstate[h] = "PENDING" => fstate'[h] # "RUNNING"]_vars
    /\ [][\A h \in Handles :
            fstate[h] = "RUNNING" => fstate'[h] \in {"RUNNING", "FINISHED"}]_vars

\* what close() does cancel: every future no worker has taken off the work
\* queue, and its transport call is never made; a running future is never
\* cancelled: it stays running until it finishes.
C4_CloseCancelsPendingOnly ==
    /\ [](hist.closed =>
            \A h \in 1..nfut :
               h \notin hist.taken =>
                  fstate[h] = "CANCELLED" /\ h \notin hist.invoked)
    /\ [][\A h \in Handles :
            fstate[h] = "RUNNING" => fstate'[h] \in {"RUNNING", "FINISHED"}]_vars

\* the pool was closed with one future completed, one running and one not
\* started, which is cancelled
C4_Witness ==
    /\ hist.closed
    /\ \E a, b, c \in 1..nfut :
          /\ fstate[a] = "FINISHED"
          /\ fstate[b] = "RUNNING"
          /\ fstate[c] = "CANCELLED" /\ c \notin hist.taken

\* C5: with on_error = skip no transport error reaches the consumer (and
\* no exception at all when no future is cancelled), only responses are
\* delivered, and a retrieval that is over has delivered
\* exactly the futures that succeeded, once each: n - k results for k
\* failures among n futures.
C5_SkipDropsFailures ==
    on_error = "skip" =>
        /\ raised # "exception"
        /\ (\A i \in 1..Len(queue) : ~cancelled(queue[i])) => raised = "none"
        /\ \A k \in 1..Len(out) :
              out[k].kind = "response" /\ fout[out[k].h] = "result"
        /\ gen.pc \in {"returned", "ended"} =>
              /\ NoDup(OutHandles)
              /\ SeqToSet(OutHandles) =
                    SeqToSet(QueueSeen) \ Failed(SeqToSet(QueueSeen))
              /\ Len(out) = gen.n - Cardinality(Failed(SeqToSet(QueueSeen)))

\* as_completed() has ended with two results for three futures, one failed
C5_Witness ==
    /\ on_error = "skip"
    /\ gen.pc = "ended"
    /\ gen.n = 3
    /\ Cardinality(Failed(SeqToSet(QueueSeen))) = 1
    /\ Len(out) = 2

\* C6: with on_error = return no transport error is raised (and no
\* exception at all when no future is cancelled); a failed future
\* is delivered as the error, carrying the tag given at submission, a
\* successful one as the response; in_order() has one entry per future at
\* the future's position in the queue, as_completed() one entry per future.
C6_ReturnDeliversErrors ==
    on_error = "return" =>
        /\ raised # "exception"
        /\ (\A i \in 1..Len(queue) : ~cancelled(queue[i])) => raised = "none"
        /\ \A k \in 1..Len(out) :
              /\ out[k].kind = IF fout[out[k].h] = "exception"
                               THEN "error" ELSE "response"
              /\ out[k].tag = hist.given[out[k].h]
        /\ gen.pc = "returned" => OutHandles = QueueSeen
        /\ gen.pc = "ended" =>
              /\ Len(out) = gen.n
              /\ SeqToSet(OutHandles) = SeqToSet(QueueSeen)

\* in_order() has returned three entries, the second of them an error
C6_Witness ==
    /\ on_error = "return"
    /\ gen.pc = "returned"
    /\ Len(out) = 3
    /\ out[2].kind = "error"
    /\ out[1].kind = "response"

\* C7: with on_error = raise the error of a failed future is raised when the
\* consumer reaches that future: no error is delivered as a result and no
\* failure is passed over, what was delivered before is the results of the
\* futures reached before, and after the exception the retrieval delivers
\* nothing more (in_order() returns no list).
C7_RaiseEndsConsumption ==
    /\ [](/\ raised = "exception" => on_error = "raise" /\ gen.pc = "raised"
          /\ on_error = "raise" =>
                /\ \A k \in 1..Len(out) : out[k].kind = "response"
                /\ gen.pc \in {"returned", "ended"} =>
                      Failed(SeqToSet(QueueSeen)) = {}
          /\ (raised = "exception" /\ gen.kind = "in_order") =>
                /\ fout[queue[gen.idx]] = "exception"
                /\ OutHandles = SubSeq(queue, 1, gen.idx - 1)
          /\ (raised = "exception" /\ gen.kind = "as_completed") =>
                /\ fout[gen.ys[Len(gen.ys)]] = "exception"
                /\ OutHandles = SubSeq(gen.ys, 1, Len(gen.ys) - 1))
    /\ [][gen.pc = "raised" =>
            \/ gen'.pc = "raised" /\ out' = out /\ raised' = raised
            \/ gen'.pc = "none"]_vars

\* as_completed() has raised the error of the third future it reached,
\* after delivering the results of the first two
C7_Witness ==
    /\ raised = "exception"
    /\ gen.kind = "as_completed"
    /\ Len(out) = 2

\* C8: no error is surfaced to a consumer of in_order() / as_completed() on
\* account of a cancelled future, under any on_error policy.
C8_NoErrorForCancelled ==
    raised # "CancelledError"

\* C9: a future's tag is the value given at its submission and never
\* changes: every future in the queue carries it, and every result or
\* returned error carries the tag of the future that produced it.
C9_TagFixedAtSubmission ==
    /\ \A h \in Handles : ftag[h] \in {NoTag, hist.given[h]}
    /\ \A i \in 1..Len(queue) :
          ftag[queue[i]] # NoTag /\ ftag[queue[i]] = hist.given[queue[i]]
    /\ \A k \in 1..Len(out) :
          out[k].tag # NoTag /\ out[k].tag = hist.given[out[k].h]

\* two threads have submitted concurrently (the queue is not in the order
\* of creation) and the results of both futures have been delivered
C9_Witness ==
    /\ Len(queue) = 2
    /\ queue[1] > queue[2]
    /\ Len(out) = 2

\* the product of the lengths of the Multis found
RECURSIVE ProductLen(_)
ProductLen(pi) ==
    IF pi = <<>> THEN 1 ELSE Len(Head(pi)[2]) * ProductLen(Tail(pi))

\* the product of the numbers of distinct values of the Multis found
RECURSIVE ProductDistinct(_)
ProductDistinct(pi) ==
    IF pi = <<>> THEN 1
    ELSE Cardinality(SeqToSet(Head(pi)[2])) * ProductDistinct(Tail(pi))

\* a tag as a map: its (path, value) pairs, and its paths
TagMap(tag) == SeqToSet(tag)
TagPaths(tag) == {tag[i][1] : i \in 1..Len(tag)}
DiscoveredPaths == {paths_items[i][1] : i \in 1..Len(paths_items)}

\* the value found in args by following path
RECURSIVE ValueAt(_, _)
ValueAt(args, path) ==
    IF path = <<>> THEN args ELSE ValueAt(get_item(args, path[1]), Tail(path))

\* the MultiRequest call is over and no request failed
ExpandedNoFailure ==
    /\ mpc = "done"
    /\ \A h \in 1..nfut : fout[h] = "result"

\* the call submitted as many requests as the product of the lengths of its
\* Multis and returned as many responses, each tagged with the map from
\* every discovered path to the value its request was sent with there
ProductOfTagged ==
    /\ nfut = ProductLen(paths_items)
    /\ Len(sent) = ProductLen(paths_items)
    /\ result.raised = "none"
    /\ Len(result.responses) = ProductLen(paths_items)
    /\ NoDup([k \in 1..Len(result.responses) |-> result.responses[k].h])
    /\ \A k \in 1..Len(result.responses) :
          LET r == result.responses[k] IN
          /\ r.kind = "response"
          /\ Len(r.tag) = Len(paths_items)
          /\ TagPaths(r.tag) = DiscoveredPaths
          /\ \A i \in 1..Len(r.tag) :
                /\ ValueAt(sent[r.h], r.tag[i][1]) = r.tag[i][2]
                /\ \E m \in 1..Len(paths_items) :
                      /\ paths_items[m][1] = r.tag[i][1]
                      /\ r.tag[i][2] \in SeqToSet(paths_items[m][2])

ResultTags == {TagMap(result.responses[k].tag) :
                  k \in 1..Len(result.responses)}

\* C10 (as amended): a MultiRequest over N discovered Multis of lengths
\* L1..LN, none of whose requests fails, submits exactly L1*...*LN requests
\* and returns exactly that many results, each tagged with the map from
\* every discovered path to the value chosen at that path (N = 0: one
\* request with the empty tag; some Li = 0: no request, empty result).  The
\* number of distinct tags is the product of the numbers of distinct values
\* of the Multis: the tags are pairwise distinct when the values of each
\* Multi are pairwise distinct.
C10_ExpandProductTagged ==
    ExpandedNoFailure =>
        /\ ProductOfTagged
        /\ Cardinality(ResultTags) = ProductDistinct(paths_items)
        /\ (\A m \in 1..Len(paths_items) : NoDup(paths_items[m][2])) =>
              \A j, k \in 1..Len(result.responses) :
                 j # k => TagMap(result.responses[j].tag)
                          # TagMap(result.responses[k].tag)

\* a call over two Multis of two distinct values each has returned its
\* four results, a later request having finished before an earlier one
C10_Witness ==
    /\ ExpandedNoFailure
    /\ Len(paths_items) = 2
    /\ \A m \in 1..2 : Len(paths_items[m][2]) = 2 /\ NoDup(paths_items[m][2])
    /\ Len(result.responses) = 4
    /\ hist.ooo

\* C10 (as stated): the same, with the tags of the results pairwise
\* distinct in every case
C10_TagsPairwiseDistinct ==
    ExpandedNoFailure =>
        /\ ProductOfTagged
        /\ \A j, k \in 1..Len(result.responses) :
              j # k => TagMap(result.responses[j].tag)
                       # TagMap(result.responses[k].tag)

\* the Multis of the caller's arguments, in the order of their discovery
Discovered == find_multis_in_value(<<>>, kwargs)

\* the product of the lengths of the Multis m..N
RECURSIVE Stride(_, _)
Stride(found, m) ==
    IF m > Len(found) THEN 1
    ELSE Len(found[m][2].multi) * Stride(found, m + 1)

\* the k-th combination (k from 1) when the Multi discovered last varies
\* fastest: the (path, value) pairs it selects
Combination(found, k) ==
    {<<found[m][1],
       found[m][2].multi[(((k - 1) \div Stride(found, m + 1))
                          % Len(found[m][2].multi)) + 1]>> :
        m \in 1..Len(found)}

RECURSIVE Substituted(_, _, _)
Substituted(value, path, tag) ==
    IF \E i \in 1..Len(tag) : tag[i][1] = path
    THEN (CHOOSE e \in SeqToSet(tag) : e[1] = path)[2]
    ELSE IF isinstance(value, {"dict"})
    THEN Dict([i \in 1..Len(value.dict) |->
                  <<value.dict[i][1],
                    Substituted(value.dict[i][2],
                                Append(path, Key(value.dict[i][1])), tag)>>])
    ELSE IF isinstance(value, {"list"})
    THEN List([i \in 1..Len(value.list) |->
                  Substituted(value.list[i], Append(path, Idx(i - 1)), tag)])
    ELSE IF isinstance(value, {"tuple"})
    THEN Tuple([i \in 1..Len(value.tuple) |->
                   Substituted(value.tuple[i], Append(path, Idx(i - 1)), tag)])
    ELSE value

\* value with every tuple turned into a list of the same items
RECURSIVE TuplesAsLists(_)
TuplesAsLists(value) ==
    IF isinstance(value, {"dict"})
    THEN Dict([i \in 1..Len(value.dict) |->
                  <<value.dict[i][1], TuplesAsLists(value.dict[i][2])>>])
    ELSE IF isinstance(value, {"list"})
    THEN List([i \in 1..Len(value.list) |-> TuplesAsLists(value.list[i])])
    ELSE IF isinstance(value, {"tuple"})
    THEN List([i \in 1..Len(value.tuple) |-> TuplesAsLists(value.tuple[i])])
    ELSE value

Returned == mpc \in {"exit", "closing", "done"}

\* the futures whose outcome the completion stream delivers to its consumer
Deliverable == {h \in 1..nfut : fout[h] = "result"
                                \/ (fout[h] = "exception" /\ on_error = "return")}

\* C13: MultiRequestFirst returns None only when every combination has
\* been submitted and resolved and no result that the completion stream
\* delivers satisfies the predicate; when it returns a value, that value is
\* a delivered result for which the predicate is true, and it carries the
\* tag of its combination.
C13_FirstNoneIffNoMatch ==
    /\ Returned /\ result.kind = "none" =>
          /\ nfut = Stride(Discovered, 1)
          /\ \A h \in 1..nfut : fstate[h] = "FINISHED"
          /\ \A h \in Deliverable : verdict[h] # "yes"
    /\ Returned /\ result.kind = "response" =>
          LET r == result.response IN
          /\ r.h \in Deliverable
          /\ verdict[r.h] = "yes"
          /\ TagMap(r.tag) = Combination(Discovered, r.h)

\* a call over four combinations has returned None, one of its requests
\* having failed
C13_Witness ==
    /\ mpc = "done"
    /\ result.kind = "none"
    /\ nfut = 4
    /\ \E h \in 1..nfut : fout[h] = "exception"

\* C14: when several combinations satisfy the predicate, MultiRequestFirst
\* returns the matching result whose future completed first: no matching
\* future that completed strictly earlier than the returned one is passed
\* over.
C14_FirstCompletedMatchReturned ==
    Returned /\ result.kind = "response" =>
        result.response.h = Head(comp)

\* C15: once MultiRequestFirst has found a matching result it closes the
\* pool before it returns: after the call has returned, no future that was
\* pending then ever starts running (its transport call is never made).
C15_NoStartAfterFirstReturns ==
    [][mpc = "done" /\ result.kind = "response" =>
          \A h \in Handles :
             fstate[h] = "PENDING" =>
                fstate'[h] # "RUNNING" /\ h \notin hist'.invoked]_vars

\* C16: whenever MultiRequestFirst returns or raises after opening its pool
\* (no match, early match, a transport error under on_error = "raise", an
\* exception of the predicate), the pool has been closed, so every future
\* it submitted is finished, cancelled or running, and none is pending.
C16_PoolClosedOnEveryExit ==
    mpc = "done" =>
        /\ shutdown /\ hist.closed
        /\ workq = <<>>
        /\ \A h \in 1..nfut :
              fstate[h] \in {"RUNNING", "FINISHED", "CANCELLED",
                             "CANCELLED_AND_NOTIFIED"}

C17_WitnessRefused ==
    /\ request # <<>> /\ request.call = "prepare_request"
    /\ request.given = <<"@", "o", "/", "a">>
    /\ request.end = "HTTPOutOfScopeError"

\* the parts of the base URL and of an absolute URL from which the texts
\* in the state were made
BaseParts == CHOOSE b \in BaseUrls : Text(b) = base_url
GivenParts == CHOOSE u \in AbsoluteUrls : Text(u) = request.given

\* equal ports: none on both sides, or the same number
SamePort(p, q) ==
    IF p = NoPart \/ q = NoPart THEN p = q ELSE int(p) = int(q)

\* C18: is_in_scope(url) is true exactly when the URL's scheme, host (host
\* names compare without regard to case) and port each equal those of the
\* base URL and the URL's path starts with the base path as a plain string
\* prefix; an explicit port against none, another host, another scheme or a
\* path that does not start with the base path is rejected.
C18_InScopeIffSameOriginAndPathPrefix ==
    /\ request # <<>> /\ request.call = "is_in_scope"
    /\ request.given \notin RelativeTexts
    =>  /\ request.end \in {"True", "False"}
        /\ request.end = "True" <=>
              /\ GivenParts.scheme = BaseParts.scheme
              /\ lower(GivenParts.host) = lower(BaseParts.host)
              /\ SamePort(GivenParts.port, BaseParts.port)
              /\ Len(BaseParts.path) <= Len(GivenParts.path)
              /\ \A i \in 1..Len(BaseParts.path) :
                    GivenParts.path[i] = BaseParts.path[i]

\* a URL under the base path was accepted although its path is no
\* sub-path of the base path, its host is written in another case, its
\* port with a leading zero, and it carries a user name
C18_Witness ==
    /\ request # <<>> /\ request.call = "is_in_scope"
    /\ request.given \notin RelativeTexts
    /\ request.end = "True"
    /\ BaseParts.path = <<"/", "a">> /\ GivenParts.path = <<"/", "a", "b">>
    /\ GivenParts.host = <<"T">>
    /\ GivenParts.port = <<"0", "8">>
    /\ GivenParts.user # NoPart

\* an explicit port against a base URL without one was rejected
C18_WitnessPort ==
    /\ request # <<>> /\ request.call = "is_in_scope"
    /\ request.given \notin RelativeTexts
    /\ request.end = "False"
    /\ GivenParts.scheme = BaseParts.scheme
    /\ lower(GivenParts.host) = lower(BaseParts.host)
    /\ BaseParts.port = NoPart /\ GivenParts.port # NoPart

\* C19: with a progress attached to an open pool, when no submit is under
\* way the total equals the number of futures in the queue and the count of
\* completed equals the number of futures that are done (each has advanced
\* it by exactly one); hence, once every submitted future is done, completed
\* equals total.
C19_ProgressCountsHandles ==
    progress.on /\ th["main"].pc = "idle" =>
        /\ progress.total = Len(queue)
        /\ progress.completed = Cardinality({h \in 1..nfut : done(h)})
        /\ (\A h \in 1..nfut : done(h)) => progress.completed = progress.total

\* what holds of the progress: the total is the length of the queue, and
\* every done future has advanced the count once its callbacks have run
C19_ProgressCountsAfterCallbacks ==
    progress.on /\ th["main"].pc = "idle" =>
        /\ progress.total = Len(queue)
        /\ progress.completed =
              Cardinality({h \in 1..nfut : done(h)})
              - Cardinality({w \in 1..MaxWorkers :
                                wk[w].pc = "callbacks" /\ fcb[wk[w].item]})

\* C20: with a pool of one worker the transport calls are made in the order
\* of submission, so under on_error = "raise", when as_completed() raises
\* for a failing future F, every result it has yielded is that of a future
\* submitted before F, and the last one that of the future submitted
\* immediately before F (no future being cancelled).
C20_OneWorkerYieldsPredecessorsThenRaises ==
    /\ workers = 1
    /\ on_error = "raise"
    /\ \A h \in 1..nfut : ~cancelled(h)
    =>  /\ \A h \in hist.invoked : \A e \in 1..(h - 1) : e \in hist.invoked
        /\ gen.kind = "as_completed" /\ gen.pc = "raised" =>
              LET F == gen.ys[Len(gen.ys)] IN
                 /\ \A k \in 1..Len(out) : out[k].h < F
                 /\ F > 1 => out # <<>> /\ out[Len(out)].h = F - 1

\* what one worker does give: the transport calls are made in the order of
\* submission, and a future is done before the next one starts
C20_OneWorkerRunsInSubmissionOrder ==
    /\ workers = 1
    /\ \A h \in 1..nfut : ~cancelled(h)
    =>  \A h \in hist.invoked : \A e \in 1..(h - 1) : done(e)

\* the place of future h in the sequence q (0: not there)
IndexOf(q, h) ==
    IF \E i \in 1..Len(q) : q[i] = h
    THEN CHOOSE i \in 1..Len(q) : q[i] = h
    ELSE 0

\* C21: a running future never delays results that are available: when the
\* body of an as_completed loop has submitted H2, and H2 has finished while
\* H1, submitted earlier, was still running, the same iteration yields H2
\* before H1, while the queue, which in_order() follows, has H1 before H2.
C21_FinishedNotDelayedByRunning ==
    gen.kind = "as_completed" =>
        \A H1, H2 \in 1..nfut :
            /\ H2 \in gen.late /\ H2 \in hist.inloop
            /\ <<H2, H1>> \in hist.overtook
            /\ H1 \in hist.invoked
            /\ IndexOf(gen.ys, H1) # 0
            =>  /\ IndexOf(gen.ys, H2) # 0
                /\ IndexOf(gen.ys, H2) < IndexOf(gen.ys, H1)
                /\ IndexOf(queue, H1) < IndexOf(queue, H2)

\* the moves of Future._state; CANCELLED and CANCELLED_AND_NOTIFIED are both
\* the state "canceled" of a Handle
Moves ==
    {<<"NONE", "PENDING">>, <<"PENDING", "RUNNING">>,
     <<"RUNNING", "FINISHED">>, <<"PENDING", "CANCELLED">>,
     <<"CANCELLED", "CANCELLED_AND_NOTIFIED">>}

\* a step of __exit__: the caller moves on in it, or it takes a work item
\* off the work queue
CloseStep ==
    \/ th' # th /\ th["main"].pc \in {"shutdown", "drain"}
    \/ th' # th /\ th'["main"].pc = "shutdown"
    \/ th["main"].pc = "drain" /\ workq' # workq /\ wk' = wk

\* C22: a Handle only moves pending -> running -> completed or failed, or
\* pending -> canceled; a running Handle is never canceled; the state and the
\* result of a Handle that is completed, failed or canceled never change
\* again; a repeated close() changes nothing.
C22_HandleStatesOnlyAdvance ==
    [][/\ \A h \in Handles :
             /\ fstate'[h] # fstate[h] => <<fstate[h], fstate'[h]>> \in Moves
             /\ fout'[h] # fout[h] =>
                   fstate[h] = "RUNNING" /\ fstate'[h] = "FINISHED"
             /\ fstate[h] = "RUNNING" => ~cancelled(h)'
             /\ done(h) => /\ done(h)'
                           /\ cancelled(h)' = cancelled(h)
                           /\ fout'[h] = fout[h]
       /\ hist.closed /\ CloseStep =>
             UNCHANGED <<fstate, fout, shutdown, progress, workq, queue>>]_vars

\* the pool is closed again while one Handle is completed, one canceled, and
\* cancel() is called on a running one
C22_Witness ==
    /\ hist.closed
    /\ th["main"].pc = "drain"
    /\ \E h \in 1..nfut : fstate[h] = "FINISHED"
    /\ \E h \in 1..nfut : cancelled(h)
    /\ \E h \in 1..nfut : fstate[h] = "RUNNING" /\ h \in hist.returned

Running == {h \in 1..nfut : fstate[h] = "RUNNING"}

\* C23: at every moment the number of Handles whose transport call is in
\* progress is at most the number of workers the pool was created with,
\* however many Handles are submitted and whenever.
C23_RunningAtMostWorkers ==
    Cardinality(Running) <= workers

\* a pool of one worker has one Handle running while another, submitted
\* from the body of an as_completed loop, is pending
C23_Witness ==
    /\ workers = 1
    /\ Cardinality(Running) = 1
    /\ \E h \in hist.inloop : fstate[h] = "PENDING"

\* C24: the queue is append-only: a submit appends exactly one Handle at
\* its end, no other operation removes or reorders a Handle, so every Handle
\* a submit has returned stays in the queue, and every Handle in the queue is
\* pending, running, completed, failed or canceled.
C24_QueueAppendOnly ==
    [][/\ \/ queue' = queue
          \/ \E h \in Handles :
                /\ IndexOf(queue, h) = 0
                /\ queue' = Append(queue, h)
                /\ \E t \in DOMAIN th : th[t].pc = "append" /\ th[t].fut = h
       /\ hist'.returned \subseteq SeqToSet(queue')
       /\ \A i \in 1..Len(queue') :
             fstate'[queue'[i]] \in {"PENDING", "RUNNING", "FINISHED",
                                     "CANCELLED", "CANCELLED_AND_NOTIFIED"}]_vars

\* three Handles are in the queue of a closed pool with the policy "skip":
\* one failed, one was canceled, and a retrieval has gone over the queue
C24_Witness ==
    /\ Len(queue) = 3
    /\ hist.closed
    /\ on_error = "skip"
    /\ \E h \in 1..nfut : fout[h] = "exception"
    /\ \E h \in 1..nfut : cancelled(h)
    /\ gen.ys # <<>>

\* the proxies of Burp mode: the configured Burp proxy for every protocol
BurpProxies == [dict |-> <<"all", "http://localhost:8080">>]

InBurp == burp_saved_state # EmptyDict

\* C25: burp() and unburp() are a save-and-restore pair: the first burp()
\* saves the current (proxies, verify), installs the Burp proxy and sets
\* verify to False; a further burp() in Burp mode changes nothing; unburp()
\* restores the saved (proxies, verify) and clears the saved state; unburp()
\* outside Burp mode changes nothing.
C25_BurpSavesAndUnburpRestores ==
    [][call'.n = call.n + 1 =>
         /\ call'.op = "burp" /\ ~InBurp =>
               /\ call'.end = "return"
               /\ burp_saved_state' = [proxies |-> proxies, verify |-> verify]
               /\ proxies' = BurpProxies
               /\ verify' = FALSE
         /\ call'.op = "burp" /\ InBurp =>
               UNCHANGED <<proxies, verify, burp_saved_state>>
         /\ call'.op = "unburp" /\ InBurp =>
               /\ proxies' = burp_saved_state.proxies
               /\ verify' = burp_saved_state.verify
               /\ burp_saved_state' = EmptyDict
         /\ call'.op = "unburp" /\ ~InBurp =>
               UNCHANGED <<proxies, verify, burp_saved_state>>]_vars

\* a retrieval is under way
Retrieving == gen.pc \in {"io", "top", "iter", "body", "resume"}

\* the retrieval is over: in_order() has returned its list, as_completed()
\* has ended having yielded every future of the queue, or the retrieval has
\* raised the error of a failed future (on_error = "raise")
Retrieved ==
    \/ gen.pc = "returned" /\ gen.n = Len(queue)
    \/ gen.pc = "ended" /\ SeqToSet(queue) \subseteq SeqToSet(gen.ys)
    \/ gen.pc = "raised" /\ on_error = "raise" /\ raised = "exception"

\* C26: on an open pool with finitely many submissions, whose transport
\* calls all return or fail and whose Handles are not cancelled,
\* as_completed() eventually yields every Handle and ends (its wait /
\* timeout / re-check loop does not spin forever) and in_order() eventually
\* returns.
C26_RetrievalTerminates == Retrieving ~> Retrieved

\* as_completed() has ended after yielding three futures, one submitted from
\* the loop body, one finished before an earlier one
C26_Witness ==
    /\ gen.kind = "as_completed" /\ gen.pc = "ended"
    /\ Len(gen.ys) = 3
    /\ hist.inloop # {}
    /\ hist.ooo

\* value[step] is defined: a key of a dict, an index of a list or a tuple
HasChild(value, step) ==
    \/ /\ isinstance(value, {"dict"}) /\ DOMAIN step = {"key"}
       /\ \E e \in SeqToSet(value.dict) : e[1] = step.key
    \/ /\ isinstance(value, {"list"}) /\ DOMAIN step = {"idx"}
       /\ step.idx + 1 \in 1..Len(value.list)
    \/ /\ isinstance(value, {"tuple"}) /\ DOMAIN step = {"idx"}
       /\ step.idx + 1 \in 1..Len(value.tuple)

\* value[step]
Child(value, step) ==
    IF isinstance(value, {"dict"})
    THEN (CHOOSE e \in SeqToSet(value.dict) : e[1] = step.key)[2]
    ELSE IF isinstance(value, {"list"}) THEN value.list[step.idx + 1]
    ELSE value.tuple[step.idx + 1]

\* the path leads from value to some position
RECURSIVE Leads(_, _)
Leads(value, path) ==
    \/ path = <<>>
    \/ HasChild(value, path[1]) /\ Leads(Child(value, path[1]), Tail(path))

\* the value at the end of a path that leads somewhere
RECURSIVE Follow(_, _)
Follow(value, path) ==
    IF path = <<>> THEN value ELSE Follow(Child(value, path[1]), Tail(path))

\* the position of a step among the steps of a dict, a list or a tuple
StepPos(value, step) ==
    IF isinstance(value, {"dict"})
    THEN CHOOSE i \in 1..Len(value.dict) : value.dict[i][1] = step.key
    ELSE step.idx + 1

\* every <<path, value>> reachable from value through dicts (by key), lists
\* and tuples (by index), the insides of a Multi left out
RECURSIVE Positions(_, _)
Positions(path, value) ==
    {<<path, value>>}
    \cup IF isinstance(value, {"dict"})
         THEN UNION {Positions(Append(path, Key(value.dict[i][1])),
                               value.dict[i][2]) : i \in 1..Len(value.dict)}
         ELSE IF isinstance(value, {"list"})
         THEN UNION {Positions(Append(path, Idx(i - 1)), value.list[i]) :
                        i \in 1..Len(value.list)}
         ELSE IF isinstance(value, {"tuple"})
         THEN UNION {Positions(Append(path, Idx(i - 1)), value.tuple[i]) :
                        i \in 1..Len(value.tuple)}
         ELSE {}

\* p is a proper prefix of q
ProperPrefix(p, q) == Len(p) < Len(q) /\ SubSeq(q, 1, Len(p)) = p

\* in a depth-first walk of value, the position at p is met before the
\* position at q (neither path a prefix of the other)
DepthFirstBefore(value, p, q) ==
    \E n \in 1..Len(p) :
       /\ n <= Len(q)
       /\ SubSeq(p, 1, n - 1) = SubSeq(q, 1, n - 1)
       /\ p[n] # q[n]
       /\ LET at == Follow(value, SubSeq(p, 1, n - 1)) IN
          StepPos(at, p[n]) < StepPos(at, q[n])

\* the last item substituted at the i-th path found, "X" when none was
LastSet(i) ==
    LET ks == {k \in 1..Len(frames) : frames[k].d = i} IN
    IF ks = {} THEN Scalar("X")
    ELSE LET k == CHOOSE m \in ks : \A o \in ks : o <= m IN
         paths_items[i][2][frames[k].i]

\* C27: discovery records exactly the positions that hold a Multi and are
\* reachable from the root through dicts (step = key), lists and tuples
\* (step = index), each under its path, in depth-first order, the same for
\* every walk of the same arguments; the walk does not go into a Multi, so
\* no recorded path is a prefix of another, and after substitutions at some
\* paths every recorded path still leads, in the working arguments, to what
\* was last put there.
C27_DiscoveryExactDepthFirstPrefixFree ==
    LET found == find_multis_in_value(<<>>, kwargs)
        n == Len(found)
    IN
    /\ SeqToSet(found)
          = {pv \in Positions(<<>>, kwargs) : isinstance(pv[2], {"multi"})}
    /\ \A i, j \in 1..n : i < j =>
          /\ found[i][1] # found[j][1]
          /\ ~ProperPrefix(found[i][1], found[j][1])
          /\ ~ProperPrefix(found[j][1], found[i][1])
          /\ DepthFirstBefore(kwargs, found[i][1], found[j][1])
    /\ mpc = "with" =>
          /\ paths_items = multi_items(found)
          /\ \A i \in 1..n :
                /\ Leads(arguments, found[i][1])
                /\ Follow(arguments, found[i][1]) = LastSet(i)

\* two Multis found, the first one holding a Multi of its own, and an item
\* substituted at each of the two paths
C27_Witness ==
    /\ mpc = "with"
    /\ Len(paths_items) >= 2
    /\ \E x \in SeqToSet(paths_items[1][2]) : isinstance(x, {"multi"})
    /\ Len(frames) = 2
    /\ frames[1].d # frames[2].d

\* ---- the objects of a MultiRequest call
\* A reference is a scalar or [at |-> id]; nodes[id] is a dict, a list, a
\* tuple or a Multi whose entries are references.
Ref(id) == [at |-> id]

\* the references a node holds
ChildRefs(node) ==
    IF isinstance(node, {"dict"})
    THEN {node.dict[i][2] : i \in 1..Len(node.dict)}
    ELSE IF isinstance(node, {"list"}) THEN SeqToSet(node.list)
    ELSE IF isinstance(node, {"tuple"}) THEN SeqToSet(node.tuple)
    ELSE SeqToSet(node.multi)

\* the node with the entries of `node` and refs in the place of its values
WithRefs(node, refs) ==
    IF isinstance(node, {"dict"})
    THEN Dict([i \in 1..Len(node.dict) |-> <<node.dict[i][1], refs[i]>>])
    ELSE IF isinstance(node, {"list"}) THEN List(refs)
    ELSE IF isinstance(node, {"tuple"}) THEN Tuple(refs)
    ELSE Multi(refs)

\* the values or references of a node, in order
Entries(node) ==
    IF isinstance(node, {"dict"})
    THEN [i \in 1..Len(node.dict) |-> node.dict[i][2]]
    ELSE IF isinstance(node, {"list"}) THEN node.list
    ELSE IF isinstance(node, {"tuple"}) THEN node.tuple
    ELSE node.multi

\* the caller builds a value: one object per dict, list, tuple and Multi
RECURSIVE New(_, _)
RECURSIVE NewAll(_, _, _)
New(nodes, value) ==
    IF isinstance(value, {"scalar"}) THEN [nodes |-> nodes, ref |-> value]
    ELSE LET made == NewAll(nodes, Entries(value), <<>>) IN
         [nodes |-> Append(made.nodes, WithRefs(value, made.refs)),
          ref |-> Ref(Len(made.nodes) + 1)]

NewAll(nodes, values, refs) ==
    IF values = <<>> THEN [nodes |-> nodes, refs |-> refs]
    ELSE LET made == New(nodes, Head(values)) IN
         NewAll(made.nodes, Tail(values), Append(refs, made.ref))

\* the value a reference stands for
RECURSIVE Deref(_, _)
Deref(nodes, ref) ==
    IF isinstance(ref, {"scalar"}) THEN ref
    ELSE LET node == nodes[ref.at]
             refs == Entries(node)
         IN WithRefs(node, [i \in 1..Len(refs) |-> Deref(nodes, refs[i])])

\* the objects reachable from a reference
RECURSIVE Reach(_, _)
Reach(nodes, ref) ==
    IF isinstance(ref, {"scalar"}) THEN {}
    ELSE {ref.at}
         \cup UNION {Reach(nodes, c) : c \in ChildRefs(nodes[ref.at])}

\* a copy that hands back the object itself
arguments_copy_shared(nodes, ref) == [nodes |-> nodes, ref |-> ref]

\* MultiRequest.__arguments_copy on objects: a new dict for a dict, a new
\* list for a list or a tuple, "X" for a Multi, the value itself otherwise
RECURSIVE arguments_copy_at(_, _)
RECURSIVE arguments_copy_all(_, _, _)
arguments_copy_at(nodes, ref) ==
    IF isinstance(ref, {"scalar"}) THEN [nodes |-> nodes, ref |-> ref]
    ELSE LET node == nodes[ref.at] IN
         IF isinstance(node, {"multi"})
         THEN [nodes |-> nodes, ref |-> Scalar("X")]
         ELSE LET made == arguments_copy_all(nodes, Entries(node), <<>>)
                  copy == IF isinstance(node, {"dict"})
                          THEN WithRefs(node, made.refs)
                          ELSE List(made.refs)
              IN [nodes |-> Append(made.nodes, copy),
                  ref |-> Ref(Len(made.nodes) + 1)]

arguments_copy_all(nodes, refs, copies) ==
    IF refs = <<>> THEN [nodes |-> nodes, refs |-> copies]
    ELSE LET made == arguments_copy_at(nodes, Head(refs)) IN
         arguments_copy_all(made.nodes, Tail(refs), Append(copies, made.ref))

\* the reference found from ref by following path
RECURSIVE follow_at(_, _, _)
follow_at(nodes, ref, path) ==
    IF path = <<>> THEN ref
    ELSE follow_at(nodes, Child(nodes[ref.at], path[1]), Tail(path))

\* MultiRequest._replace_at_path on objects: deep[last] = value changes the
\* object deep, and nothing else
replace_at_path_at(nodes, root, path, value) ==
    LET deep == follow_at(nodes, root, SubSeq(path, 1, Len(path) - 1)) IN
    [nodes EXCEPT ![deep.at] = set_item(@, path[Len(path)], value)]

\* the items of a Multi: scalars, a dict, a list, a tuple
ItemValues ==
    {Scalar("a"), Dict(<< <<"n", Scalar("a")>> >>), List(<<Scalar("b")>>),
     Tuple(<<Scalar("a"), Scalar("b")>>)}

ItemMultis ==
    {Multi(<<x>>) : x \in ItemValues}
    \cup {Multi(<<x, y>>) : x \in ItemValues, y \in ItemValues}

\* data=: a dict with a Multi, and a list that holds a scalar or a second
\* Multi inside a tuple
CopyOptions ==
    {Dict(<< <<"url", Scalar("a")>>,
             <<"data", Dict(<< <<"k", m>>, <<"j", List(<<Tuple(<<n>>)>>)>> >>)>> >>) :
        m \in ItemMultis,
        n \in {Scalar("b"), Multi(<<List(<<Scalar("b")>>), Scalar("a")>>)}}

\* session.multi(workers, on_error="return").post(url, data=...): the call
\* begins, the caller having built the arguments
InitCopy ==
    /\ PoolInit(Pow(MaxItems, MaxMultis) + 1)
    /\ on_error = "return" /\ workers = 1
    /\ DOMAIN th = {"main"}
    /\ description = FALSE
    /\ NoScopedSession
    /\ NewSession
    /\ kwargs \in CopyOptions
    /\ LET made == New(<<>>, kwargs) IN
       heap = [nodes |-> made.nodes, kwargs |-> made.ref,
               arguments |-> Scalar("none"), sent |-> <<>>]
    /\ paths_items = <<>>
    /\ arguments = <<>>
    /\ frames = <<>>
    /\ mpc = "start"
    /\ sent = <<>>
    /\ result = <<>>
    /\ verdict = <<>>
    /\ comp = <<>>

\* line 1033: arguments = self.__arguments_copy(kwargs)
CopyRunRequests ==
    /\ RunRequests
    /\ LET made == arguments_copy_at(heap.nodes, heap.kwargs) IN
       heap' = [heap EXCEPT !.nodes = made.nodes, !.arguments = made.ref]

\* line 1092: the item put at the path is the caller's item itself
CopyIterSetPath ==
    /\ IterSetPath
    /\ LET path == paths_items[Top.d][1]
           multi == follow_at(heap.nodes, heap.kwargs, path)
           item == heap.nodes[multi.at].multi[Top.i + 1]
       IN heap' = [heap EXCEPT !.nodes =
                      replace_at_path_at(heap.nodes, heap.arguments, path, item)]

\* lines 1099-1100: the arguments handed to the pool are a copy
CopyIterSubmit ==
    /\ IterSubmit
    /\ LET made == arguments_copy_at(heap.nodes, heap.arguments) IN
       heap' = [heap EXCEPT !.nodes = made.nodes,
                            !.sent = Append(@, made.ref)]

NextCopy ==
    \/ CopyRunRequests /\ UNCHANGED fvars /\ UNCHANGED svars /\ UNCHANGED bvars
    \/ MultiEnter /\ UNCHANGED fvars /\ UNCHANGED svars /\ UNCHANGED bvars /\ UNCHANGED hvars
    \/ CopyIterSetPath /\ UNCHANGED fvars /\ UNCHANGED svars /\ UNCHANGED bvars
    \/ IterReturn /\ UNCHANGED fvars /\ UNCHANGED svars /\ UNCHANGED bvars /\ UNCHANGED hvars
    \/ CopyIterSubmit /\ UNCHANGED fvars /\ UNCHANGED svars /\ UNCHANGED bvars
    \/ SubmitTag("main") /\ UNCHANGED mvars /\ UNCHANGED svars /\ UNCHANGED bvars /\ UNCHANGED hvars
    \/ SubmitAppend("main") /\ UNCHANGED mvars /\ UNCHANGED svars /\ UNCHANGED bvars /\ UNCHANGED hvars
    \/ \E w \in 1..MaxWorkers : WorkerGet(w) /\ UNCHANGED mvars /\ UNCHANGED svars /\ UNCHANGED bvars /\ UNCHANGED hvars
    \/ \E w \in 1..MaxWorkers : WorkerStart(w) /\ UNCHANGED mvars /\ UNCHANGED svars /\ UNCHANGED bvars /\ UNCHANGED hvars
    \/ \E w \in 1..MaxWorkers : WorkerFinish(w) /\ UNCHANGED mvars /\ UNCHANGED svars /\ UNCHANGED bvars /\ UNCHANGED hvars
    \/ MultiGetResults /\ UNCHANGED fvars /\ UNCHANGED svars /\ UNCHANGED bvars /\ UNCHANGED hvars
    \/ InOrderNext /\ UNCHANGED mvars /\ UNCHANGED svars /\ UNCHANGED bvars /\ UNCHANGED hvars
    \/ MultiResult /\ UNCHANGED fvars /\ UNCHANGED svars /\ UNCHANGED bvars /\ UNCHANGED hvars
    \/ MultiExit /\ UNCHANGED fvars /\ UNCHANGED svars /\ UNCHANGED bvars /\ UNCHANGED hvars
    \/ CloseShutdown /\ UNCHANGED mvars /\ UNCHANGED svars /\ UNCHANGED bvars /\ UNCHANGED hvars
    \/ CloseDrain /\ UNCHANGED mvars /\ UNCHANGED svars /\ UNCHANGED bvars /\ UNCHANGED hvars
    \/ MultiDone /\ UNCHANGED fvars /\ UNCHANGED svars /\ UNCHANGED bvars /\ UNCHANGED hvars

SpecCopy == InitCopy /\ [][NextCopy]_vars

\* C28: expansion works only on copies: the caller's options and Multis
\* are never modified, the arguments handed to the pool for a combination
\* share no dict or list with the working copy, with the caller's options
\* or with the arguments of another combination, and they stay what they
\* were when they were submitted, whatever is substituted afterwards and
\* whether their request is pending, running or finished.
C28_ExpansionWorksOnCopies ==
    /\ Deref(heap.nodes, heap.kwargs) = kwargs
    /\ mpc # "start" => Deref(heap.nodes, heap.arguments) = arguments
    /\ Len(heap.sent) = Len(sent)
    /\ \A k \in 1..Len(heap.sent) :
          /\ Deref(heap.nodes, heap.sent[k]) = sent[k]
          /\ Reach(heap.nodes, heap.sent[k])
                \cap Reach(heap.nodes, heap.arguments) = {}
          /\ Reach(heap.nodes, heap.sent[k])
                \cap Reach(heap.nodes, heap.kwargs) = {}
          /\ \A j \in 1..Len(heap.sent) :
                j # k => Reach(heap.nodes, heap.sent[k])
                            \cap Reach(heap.nodes, heap.sent[j]) = {}

\* a substitution has been made while an earlier combination, whose
\* arguments hold a dict or a list put there from a Multi, is still pending
\* or running
C28_Witness ==
    /\ Len(heap.sent) >= 2
    /\ \E h \in 1..nfut : fstate[h] \in {"PENDING", "RUNNING"}
    /\ sent[1] # sent[2]
    /\ \E x \in ItemValues \ {Scalar("a")} :
          arguments_copy(x) \in {ValueAt(sent[1], <<Key("data"), Key("k")>>),
                                 ValueAt(sent[2], <<Key("data"), Key("k")>>)}

\* the liveness form of C29, under the fairness of SpecLiveClose: a call to
\* as_completed() that starts or continues after close() has cancelled
\* pending Handles, or after the caller cancelled a pending Handle,
\* eventually ends (by ending the loop or by raising).
C29_AsCompletedEndsAfterCancel ==
    (/\ gen.kind = "as_completed" /\ Retrieving
     /\ \E h \in 1..nfut : cancelled(h))
       ~> (gen.pc \in {"ended", "raised"})

\* C29, in the form a finite run refutes: as_completed() is never left
\* waiting for Handles that were cancelled and will never run (Handles in
\* state CANCELLED that are not in the work queue and that no worker holds,
\* so that nothing will ever notify the waiter), with nothing else to wait
\* for.
C29_NeverWaitsForDeadHandles ==
    ~(/\ gen.pc = "iter" /\ gen.fin = <<>> /\ gen.wfin = <<>>
      /\ gen.pending # {}
      /\ \A h \in gen.pending :
            /\ fstate[h] = "CANCELLED"
            /\ h \notin SeqToSet(workq)
            /\ \A w \in 1..MaxWorkers : wk[w].item # h)

\* the filter is being applied to the response the loop of line 1120 has
\* just been given
FilterApplied == mpc = "first" /\ gen.pc = "body"

\* the MultiRequestFirst call has its outcome
FirstOver == mpc \in {"exit", "closing", "done"}

\* C30: in MultiRequestFirst the error policy is applied before the filter.
\* With on_error = skip a failed request is never passed to the filter and
\* never keeps a match from being returned (no transport error is raised,
\* and None is returned only when the filter refused every response). With
\* on_error = return the error is passed to the filter like a response
\* (every future is passed, and None is returned only when the filter
\* refused them all, errors included). With on_error = raise the filter is
\* only reached while every future delivered so far succeeded; a failed
\* future delivered before a match makes the call raise that error, which
\* the caller gets once the pool is closed.
C30_ErrorPolicyBeforeFilter ==
    /\ FilterApplied =>
          LET r == out[Len(out)] IN
          /\ r.h = gen.ys[Len(gen.ys)]
          /\ on_error # "return" =>
                r.kind = "response" /\ fout[r.h] = "result"
          /\ on_error = "return" =>
                r.kind = (IF fout[r.h] = "result" THEN "response" ELSE "error")
          /\ on_error = "raise" =>
                \A h \in SeqToSet(gen.ys) : fout[h] = "result"
    /\ on_error = "skip" =>
          /\ raised # "exception"
          /\ FirstOver /\ result.kind = "raised" => result.exc = "FilterError"
          /\ FirstOver /\ result.kind = "none" =>
                \A h \in 1..nfut :
                   /\ done(h)
                   /\ fout[h] = "result" => verdict[h] = "no"
    /\ on_error = "return" =>
          /\ raised # "exception"
          /\ FirstOver /\ result.kind = "raised" => result.exc = "FilterError"
          /\ FirstOver /\ result.kind = "none" =>
                \A h \in 1..nfut : done(h) /\ verdict[h] = "no"
    /\ on_error = "raise" =>
          /\ mpc = "first" /\ gen.pc = "raised" =>
                /\ raised = "exception"
                /\ fout[gen.ys[Len(gen.ys)]] = "exception"
                /\ \A k \in 1..(Len(gen.ys) - 1) :
                      fout[gen.ys[k]] = "result" /\ verdict[gen.ys[k]] = "no"
          /\ FirstOver /\ result.kind = "none" =>
                \A h \in 1..nfut : fout[h] = "result" /\ verdict[h] = "no"
    /\ mpc = "done" => hist.closed

\* on_error = raise: the call has raised the error of a failed request and
\* the pool is closed, although a response that the filter accepts had
\* finished
C30_Witness ==
    /\ on_error = "raise"
    /\ mpc = "done"
    /\ result.kind = "raised" /\ result.exc = "exception"
    /\ \E h \in 1..nfut :
          fstate[h] = "FINISHED" /\ fout[h] = "result" /\ verdict[h] = "yes"

\* on_error = skip: a request failed and the match was returned all the same
C30_WitnessSkip ==
    /\ on_error = "skip"
    /\ mpc = "done"
    /\ result.kind = "response"
    /\ \E h \in 1..nfut : fout[h] = "exception"

\* on_error = return: the filter accepted an error, which is returned
C30_WitnessReturn ==
    /\ on_error = "return"
    /\ mpc = "done"
    /\ result.kind = "response"
    /\ result.response.kind = "error"

====
